---- MODULE Spec2Model ----
(***************************************************************************)
(* Record-resolution and expansion engine of research-data-staging:        *)
(* RowMapper (src/src/mapper.py), the lookups it uses (src/src/models.py)  *)
(* and the per-file fan-out around it (src/src/worker.py).                 *)
(*                                                                         *)
(* Text is modelled as a sequence of one-character strings, so that        *)
(* upper(), strip(), replace() and Decimal() are computed, not assumed.    *)
(* Optional values are <<>> (None) or <<v>>.                               *)
(***************************************************************************)
EXTENDS Integers, Sequences, FiniteSets, TLC

VARIABLES
    heap,              \* the list objects of the run, by reference
    errors_ref,        \* RowMapper.processing_errors: a reference into heap
    missing_issues,    \* RowMapper.missing_tax_type_issues
    call,              \* the single call of the sequential specifications
    file_list,         \* process_sheets_concurrently: its argument
    max_concurrency,   \* process_sheets_concurrently: its argument
    shared_header_mapping,    \* the header mapping the file tasks share
    semaphore,         \* the free permits of the semaphore
    tasks,             \* the file tasks: position, locals, result
    processed_results, \* the list process_sheets_concurrently returns
    main,              \* the position of process_sheets_concurrently
    mapping,           \* ProductCodeMapper.mapping: normalized id -> padded code
    unmapped_ids       \* ProductCodeMapper.unmapped_ids

mapperVars == <<heap, errors_ref, missing_issues>>
runVars == <<file_list, max_concurrency, shared_header_mapping, semaphore, tasks, processed_results, main>>
codeVars == <<mapping, unmapped_ids>>
vars == <<heap, errors_ref, missing_issues, call, file_list, max_concurrency, shared_header_mapping,
          semaphore, tasks, processed_results, main, mapping, unmapped_ids>>

None == <<>>
Some(v) == <<v>>
IsNone(o) == o = <<>>
Val(o) == o[1]

\* F applied to the value of v: v is evaluated once, where it is written
Let(v, F(_)) == CHOOSE r \in {F(x) : x \in {v}} : TRUE

-----------------------------------------------------------------------------
(* Python str operations *)

LowerCase == <<"a","b","c","d","e","f","g","h","i","j","k","l","m","n","o","p","q","r","s","t","u","v","w","x","y","z">>
UpperCase == <<"A","B","C","D","E","F","G","H","I","J","K","L","M","N","O","P","Q","R","S","T","U","V","W","X","Y","Z">>
Digits == <<"0","1","2","3","4","5","6","7","8","9">>
Whitespace == {" ", "\t", "\n"}

\* the characters of the modelled texts
Alphabet ==
    {LowerCase[i] : i \in 1..26} \cup {UpperCase[i] : i \in 1..26}
        \cup {Digits[i] : i \in 1..10} \cup Whitespace \cup {".", "%"}

UpperChar ==
    [c \in Alphabet |->
        IF \E i \in 1..26 : LowerCase[i] = c
        THEN UpperCase[CHOOSE i \in 1..26 : LowerCase[i] = c]
        ELSE c]

\* str.upper()
Upper(s) == [i \in 1..Len(s) |-> UpperChar[s[i]]]

RECURSIVE LStrip(_)
LStrip(s) == IF s # <<>> /\ Head(s) \in Whitespace THEN LStrip(Tail(s)) ELSE s

RECURSIVE RStrip(_)
RStrip(s) ==
    IF s # <<>> /\ s[Len(s)] \in Whitespace THEN RStrip(SubSeq(s, 1, Len(s) - 1)) ELSE s

\* str.strip()
Strip(s) == RStrip(LStrip(s))

\* c in s
Contains(s, c) == \E i \in 1..Len(s) : s[i] = c

\* s.replace(c, '')
Remove(s, c) == SelectSeq(s, LAMBDA x : x # c)

DigitSet == {Digits[i] : i \in 1..10}
IsDigit(c) == c \in DigitSet
DigitValue == [c \in DigitSet |-> (CHOOSE i \in 1..10 : Digits[i] = c) - 1]
DigitVal(c) == DigitValue[c]

RECURSIVE Pow10(_)
Pow10(n) == IF n = 0 THEN 1 ELSE 10 * Pow10(n - 1)

RECURSIVE DigitsToNat(_)
DigitsToNat(s) ==
    IF s = <<>> THEN 0 ELSE 10 * DigitsToNat(SubSeq(s, 1, Len(s) - 1)) + DigitVal(s[Len(s)])

RECURSIVE NatToDigits(_)
NatToDigits(n) == IF n < 10 THEN <<Digits[n + 1]>> ELSE NatToDigits(n \div 10) \o <<Digits[(n % 10) + 1]>>

\* str.zfill(w): zeros on the left, after a leading sign
ZFill(s, w) ==
    LET zeros == [i \in 1..(w - Len(s)) |-> "0"]
    IN  IF s # <<>> /\ s[1] \in {"+", "-"} THEN <<s[1]>> \o zeros \o Tail(s) ELSE zeros \o s

-----------------------------------------------------------------------------
(* decimal.Decimal, for unsigned fixed-point literals: the value c / 10^e,  *)
(* kept in lowest terms so that equal values are equal records              *)
(* (Decimal.__eq__ compares values: Decimal("1.0") == Decimal("1")).        *)

RECURSIVE DecNorm(_)
DecNorm(d) ==
    IF d.e > 0 /\ d.c % 10 = 0 THEN DecNorm([c |-> d.c \div 10, e |-> d.e - 1]) ELSE d

\* Decimal(text): surrounding whitespace is ignored; digits with at most one
\* point and at least one digit; anything else raises InvalidOperation (None)
DecimalOf(text) ==
    LET t == Strip(text)
        points == Remove(t, ".")
        dot == IF Contains(t, ".") THEN CHOOSE i \in 1..Len(t) : t[i] = "." ELSE Len(t) + 1
    IN  IF /\ points # <<>>
           /\ \A i \in 1..Len(points) : IsDigit(points[i])
           /\ Len(t) - Len(points) <= 1
        THEN Some(DecNorm([c |-> DigitsToNat(points), e |-> Len(t) + 1 - dot - (Len(t) - Len(points))]))
        ELSE None

\* Decimal / 100
DecDiv100(d) == DecNorm([c |-> d.c, e |-> d.e + 2])

FracDigits == 6

\* f"{d:.6f}": rounded half-even to 6 fractional digits
FormatFixed6(d) ==
    LET scaled == IF d.e <= FracDigits THEN d.c * Pow10(FracDigits - d.e)
                  ELSE LET p == Pow10(d.e - FracDigits)
                           q == d.c \div p
                           r == d.c % p
                       IN  IF 2 * r > p \/ (2 * r = p /\ q % 2 = 1) THEN q + 1 ELSE q
    IN  NatToDigits(scaled \div Pow10(FracDigits)) \o <<".">>
            \o ZFill(NatToDigits(scaled % Pow10(FracDigits)), FracDigits)

-----------------------------------------------------------------------------
(* Reference data: the loaded lookup tables (LookupTables), after the data  *)
(* of the repository's test fixtures                                        *)

CO_STATE == <<"U","S","0","8","0","0","0","0","0","0","0","0">>
IL_STATE == <<"U","S","1","7","0","0","0","0","0","0","0","0">>
BOULDER == <<"U","S","0","8","0","1","3","A","0","0","2","5">>
CHICAGO_A == <<"U","S","1","7","0","3","1","A","0","0","0","3">>
CHICAGO_B == <<"U","S","1","7","0","3","1","A","0","0","4","7">>

T01 == <<"0","1">>
T02 == <<"0","2">>
T03 == <<"0","3">>
T04 == <<"0","4">>
T47 == <<"4","7">>

GENERAL == <<"G","e","n","e","r","a","l">>
FOOD == <<"F","o","o","d">>
OTHER_CAT == <<"x","9">>

\* LookupTables.tax_cat_lookup: description -> code
tax_cat_lookup == (GENERAL :> T01) @@ (FOOD :> T02)

\* LookupTables.tax_type_lookup: (geocode, tax_cat) -> sorted list of tax types
tax_type_lookup ==
    (<<CO_STATE, T01>> :> <<T01, T02, T03>>) @@ (<<CO_STATE, T02>> :> <<T01>>)
        @@ (<<BOULDER, T01>> :> <<T01, T04>>)
        @@ (<<IL_STATE, T01>> :> <<T01, T47>>)
        @@ (<<CHICAGO_B, T02>> :> <<T47>>)

\* LookupTables.get_tax_cat_code: dict.get(text, text)
GetTaxCatCode(tax_cat_text) ==
    IF tax_cat_text \in DOMAIN tax_cat_lookup THEN Some(tax_cat_lookup[tax_cat_text])
    ELSE Some(tax_cat_text)

GeocodeLen == 12
StatePrefixLen == 4

\* mutant: the county digits are kept as well
ConstructParentGeocode_keeps_county(geocode) ==
    LET prefix == SubSeq(geocode, 1, IF Len(geocode) < 7 THEN Len(geocode) ELSE 7)
    IN  prefix \o [i \in 1..(GeocodeLen - Len(prefix)) |-> "0"]

\* LookupTables._construct_parent_geocode: the state prefix, zero-filled
ConstructParentGeocode(geocode) ==
    LET prefix == SubSeq(geocode, 1, IF Len(geocode) < StatePrefixLen THEN Len(geocode) ELSE StatePrefixLen)
    IN  prefix \o [i \in 1..(GeocodeLen - Len(prefix)) |-> "0"]

\* the exact lookup, case-insensitive and trimmed on both key components
TaxTypeLookup(geocode, tax_cat) ==
    LET key == <<Upper(Strip(geocode)), Upper(Strip(tax_cat))>>
    IN  IF key \in DOMAIN tax_type_lookup /\ tax_type_lookup[key] # <<>>
        THEN Some(tax_type_lookup[key]) ELSE None

\* mutant: the entries of the geocode and of its parent are merged
GetTaxTypesWithHierarchyFallback_union(geocode, tax_cat) ==
    IF Strip(geocode) = <<>> \/ Strip(tax_cat) = <<>> THEN None
    ELSE LET g == Upper(Strip(geocode))
             direct == TaxTypeLookup(g, tax_cat)
             parent == TaxTypeLookup(ConstructParentGeocode(g), tax_cat)
             merged == (IF IsNone(direct) THEN <<>> ELSE Val(direct))
                           \o (IF IsNone(parent) \/ ConstructParentGeocode(g) = g THEN <<>>
                               ELSE Val(parent))
         IN  IF merged = <<>> THEN None ELSE Some(merged)

\* LookupTables.get_tax_types_with_hierarchy_fallback
GetTaxTypesWithHierarchyFallback(geocode, tax_cat) ==
    IF Strip(geocode) = <<>> \/ Strip(tax_cat) = <<>> THEN None
    ELSE LET g == Upper(Strip(geocode))
             direct == TaxTypeLookup(g, tax_cat)
             parent == ConstructParentGeocode(g)
         IN  IF ~IsNone(direct) THEN direct
             ELSE IF parent # g THEN TaxTypeLookup(parent, tax_cat)
             ELSE None

\* the geocodes that get_tax_types_with_hierarchy_fallback looks up in the
\* table, in order
FallbackLookups(geocode, tax_cat) ==
    IF Strip(geocode) = <<>> \/ Strip(tax_cat) = <<>> THEN <<>>
    ELSE LET g == Upper(Strip(geocode))
             direct == TaxTypeLookup(g, tax_cat)
             parent == ConstructParentGeocode(g)
         IN  IF ~IsNone(direct) THEN <<g>>
             ELSE IF parent # g THEN <<g, parent>>
             ELSE <<g>>

\* LookupTables.get_geocodes_for_location: the geocodes a file name resolves to
GetGeocodesForLocation(filename) ==
    CASE filename = "Colorado Sales Tax Research" -> <<CO_STATE>>
      [] filename = "Illinois Sales Tax Research" -> <<IL_STATE>>
      [] filename = "Boulder Sales Tax Research" -> <<BOULDER>>
      [] filename = "Chicago Sales Tax Research" -> <<CHICAGO_A, CHICAGO_B>>
      [] OTHER -> <<>>

-----------------------------------------------------------------------------
(* models.py enumerations and config.py defaults *)

NOT_TAXABLE == 0
TAXABLE == 1
CUSTOMER_BUSINESS == "0B"
CUSTOMER_PERSONAL == "99"
PROVIDER_DEFAULT == "99"
TRANSACTION_DEFAULT == "01"
TAX_TYPE_DEFAULT == T01
PER_TAXABLE_TYPE_DEFAULT == "01"
GROUP_DEFAULT == "7777"
effective_date == "1999-01-01"
admin_filter_value == <<"T","a","g"," ","L","e","v","e","l">>

-----------------------------------------------------------------------------
(* RowMapper.  The operators thread m, the mapper's mutable state:          *)
(*   m.errors  - the contents of the list self.processing_errors            *)
(*   m.missing - self.missing_tax_type_issues, in insertion order:          *)
(*               <<[filename, issues: <<[geocode, tax_cat, items]>>]>>      *)

\* RowMapper.taxable_mappings
taxable_mappings ==
    (<<"N","O","T"," ","T","A","X","A","B","L","E">> :> NOT_TAXABLE)
        @@ (<<"N","O","N","T","A","X","A","B","L","E">> :> NOT_TAXABLE)
        @@ (<<"E","X","E","M","P","T">> :> NOT_TAXABLE)
        @@ (<<"T","A","X","A","B","L","E">> :> TAXABLE)

\* RowMapper.uncertain_taxable_values
uncertain_taxable_values ==
    { <<"D","R","I","L","L"," ","D","O","W","N">>, <<"T","O"," ","R","E","S","E","A","R","C","H">> }

\* ProcessingError(file_name, error_message, error_type); the message is kept
\* as the values it is formatted from
ProcessingError(file_name, error_type, text, geocode, tax_cat, count, sample) ==
    [file_name |-> file_name, error_type |-> error_type, text |-> text,
     geocode |-> geocode, tax_cat |-> tax_cat, count |-> count, sample |-> sample]

\* RowMapper._add_error
AddError(m, error) == [m EXCEPT !.errors = Append(@, error)]

\* mutant: every excluded template opens an issue of its own
TrackMissingTaxTypeIssue_per_template(m, filename, geocode, tax_cat, record_item) ==
    LET ms0 == m.missing
        ms1 == IF \E i \in 1..Len(ms0) : ms0[i].filename = filename THEN ms0
               ELSE Append(ms0, [filename |-> filename, issues |-> <<>>])
        f == CHOOSE i \in 1..Len(ms1) : ms1[i].filename = filename
    IN  [m EXCEPT !.missing =
            [ms1 EXCEPT ![f].issues =
                Append(@, [geocode |-> geocode, tax_cat |-> tax_cat, items |-> <<record_item>>])]]

\* RowMapper._track_missing_tax_type_issue
TrackMissingTaxTypeIssue(m, filename, geocode, tax_cat, record_item) ==
    LET ms0 == m.missing
        ms1 == IF \E i \in 1..Len(ms0) : ms0[i].filename = filename THEN ms0
               ELSE Append(ms0, [filename |-> filename, issues |-> <<>>])
        f == CHOOSE i \in 1..Len(ms1) : ms1[i].filename = filename
        is0 == ms1[f].issues
        is1 == IF \E k \in 1..Len(is0) : is0[k].geocode = geocode /\ is0[k].tax_cat = tax_cat THEN is0
               ELSE Append(is0, [geocode |-> geocode, tax_cat |-> tax_cat, items |-> <<>>])
        k == CHOOSE k \in 1..Len(is1) : is1[k].geocode = geocode /\ is1[k].tax_cat = tax_cat
    IN  [m EXCEPT !.missing =
            [ms1 EXCEPT ![f].issues = [is1 EXCEPT ![k].items = Append(@, record_item)]]]

SampleMax == 5

\* the summary error of one (geocode, tax_cat) key
MissingTaxTypeSummary(filename, issue) ==
    ProcessingError(filename, "MissingTaxTypeError", <<>>, issue.geocode, issue.tax_cat,
        Len(issue.items),
        SubSeq(issue.items, 1, IF Len(issue.items) < SampleMax THEN Len(issue.items) ELSE SampleMax))

SummariesOf(filename, issues) ==
    [i \in 1..Len(issues) |-> MissingTaxTypeSummary(filename, issues[i])]

RECURSIVE AllSummaries(_)
AllSummaries(missing) ==
    IF missing = <<>> THEN <<>>
    ELSE SummariesOf(Head(missing).filename, Head(missing).issues) \o AllSummaries(Tail(missing))

\* RowMapper._create_missing_tax_type_summary_errors
CreateMissingTaxTypeSummaryErrors(m) ==
    [m EXCEPT !.errors = @ \o AllSummaries(m.missing)]

\* RowMapper._get_cell_value; index is None or a 0-based column
GetCellValue(row, index) ==
    IF IsNone(index) \/ Val(index) >= Len(row) THEN <<>> ELSE Strip(row[Val(index) + 1])

\* dict.get on the header map
HeaderGet(header_map, key) ==
    IF key \in DOMAIN header_map THEN header_map[key] ELSE None

\* mutant: "Drill Down" is mapped to TaxableValue.DRILL_DOWN
ParseTaxableValue_maps_drill_down(m, taxable_text, filename) ==
    LET taxable_upper == Strip(Upper(taxable_text))
    IN  IF taxable_text = <<>> THEN [m |-> m, value |-> None]
        ELSE IF taxable_upper \in DOMAIN taxable_mappings
             THEN [m |-> m, value |-> Some(taxable_mappings[taxable_upper])]
        ELSE IF taxable_upper = <<"D","R","I","L","L"," ","D","O","W","N">>
             THEN [m |-> m, value |-> Some(0 - 1)]
        ELSE IF taxable_upper \in uncertain_taxable_values THEN [m |-> m, value |-> None]
        ELSE [m |-> AddError(m, ProcessingError(filename, "UnknownTaxableValueError",
                                   taxable_text, <<>>, <<>>, 0, <<>>)),
              value |-> None]

\* RowMapper._parse_taxable_value
ParseTaxableValue(m, taxable_text, filename) ==
    LET taxable_upper == Strip(Upper(taxable_text))
    IN  IF taxable_text = <<>> THEN [m |-> m, value |-> None]
        ELSE IF taxable_upper \in DOMAIN taxable_mappings
             THEN [m |-> m, value |-> Some(taxable_mappings[taxable_upper])]
        ELSE IF taxable_upper \in uncertain_taxable_values THEN [m |-> m, value |-> None]
        ELSE [m |-> AddError(m, ProcessingError(filename, "UnknownTaxableValueError",
                                   taxable_text, <<>>, <<>>, 0, <<>>)),
              value |-> None]

\* mutant: a text with "%" is not divided by 100
ParsePercentTaxable_no_division(percent_text) ==
    IF percent_text = <<>> THEN None
    ELSE IF Contains(percent_text, "%") THEN DecimalOf(Remove(Strip(percent_text), "%"))
    ELSE DecimalOf(Strip(percent_text))

\* RowMapper._parse_percent_taxable
ParsePercentTaxable(percent_text) ==
    IF percent_text = <<>> THEN None
    ELSE IF Contains(percent_text, "%")
         THEN LET d == DecimalOf(Remove(Strip(percent_text), "%"))
              IN  IF IsNone(d) THEN None ELSE Some(DecDiv100(Val(d)))
    ELSE DecimalOf(Strip(percent_text))

\* RowMapper._get_tax_cat_code
DEFAULT_TAX_CAT == <<"0","0">>

GetTaxCatCodeOrDefault(tax_cat_desc) ==
    IF tax_cat_desc = <<>> THEN DEFAULT_TAX_CAT
    ELSE LET code == GetTaxCatCode(tax_cat_desc)
         IN  IF IsNone(code) THEN DEFAULT_TAX_CAT ELSE Val(code)

\* models.Record
Record(geocode, item, customer, taxable, tax_type, tax_cat, percent_taxable) ==
    [geocode |-> geocode, tax_auth_id |-> "", group |-> GROUP_DEFAULT, item |-> item,
     customer |-> customer, provider |-> PROVIDER_DEFAULT, transaction |-> TRANSACTION_DEFAULT,
     taxable |-> taxable, tax_type |-> tax_type, tax_cat |-> tax_cat,
     effective |-> effective_date, per_taxable_type |-> PER_TAXABLE_TYPE_DEFAULT,
     percent_taxable |-> percent_taxable]

\* one customer segment of a row, parsed (mapper.py 227-283): the taxable
\* status, the percent and the category code, and whether the segment is valid
ParseSegment(m, use, tax_cat_desc, percent_tax, filename) ==
    IF use = <<>>
    THEN [m |-> m, taxable |-> None, percent |-> None, tax_cat_code |-> None, valid |-> FALSE]
    ELSE Let(ParseTaxableValue(m, use, filename), LAMBDA t :
         Let(ParsePercentTaxable(percent_tax), LAMBDA pct :
             [m |-> t.m, taxable |-> t.value, percent |-> pct,
              tax_cat_code |-> Some(GetTaxCatCodeOrDefault(tax_cat_desc)),
              valid |-> ~IsNone(t.value) /\ ~IsNone(pct)]))

\* the template of a valid segment
SegmentRecord(geocode, current_id, customer, seg) ==
    Record(geocode, current_id, customer, Val(seg.taxable), TAX_TYPE_DEFAULT,
           Val(seg.tax_cat_code), FormatFixed6(Val(seg.percent)))

\* mutant: the comparison leaves the percent out
TreatmentIdentical_no_percent(b, p) ==
    /\ b.taxable = p.taxable
    /\ b.tax_cat_code = p.tax_cat_code

\* mapper.py 292-296
TreatmentIdentical(b, p) ==
    /\ b.taxable = p.taxable
    /\ b.tax_cat_code = p.tax_cat_code
    /\ b.percent = p.percent

\* mutant: identical treatment keeps the business record
EmitDecision_keeps_business(b, p) ==
    IF b.valid /\ p.valid
    THEN IF TreatmentIdentical(b, p) THEN <<TRUE, FALSE>> ELSE <<TRUE, TRUE>>
    ELSE IF b.valid THEN <<TRUE, FALSE>>
    ELSE IF p.valid THEN <<FALSE, TRUE>>
    ELSE <<FALSE, FALSE>>

\* mutant: a row with a single valid segment is dropped
EmitDecision_needs_both(b, p) ==
    IF b.valid /\ p.valid
    THEN IF TreatmentIdentical(b, p) THEN <<FALSE, TRUE>> ELSE <<TRUE, TRUE>>
    ELSE <<FALSE, FALSE>>

\* which of the two records are created (mapper.py 289-383):
\* <<business record created, personal record created>>
EmitDecision(b, p) ==
    IF b.valid /\ p.valid
    THEN IF TreatmentIdentical(b, p) THEN <<FALSE, TRUE>> ELSE <<TRUE, TRUE>>
    ELSE IF b.valid THEN <<TRUE, FALSE>>
    ELSE IF p.valid THEN <<FALSE, TRUE>>
    ELSE <<FALSE, FALSE>>

\* RowMapper.convert_row_to_records: (business_record, personal_record)
ConvertRowToRecords(m, row, header_map, geocode, filename) ==
    Let(GetCellValue(row, HeaderGet(header_map, "current_id")), LAMBDA current_id :
    IF current_id = <<>>
    THEN [m |-> m, business_record |-> None, personal_record |-> None]
    ELSE Let(ParseSegment(m,
                GetCellValue(row, HeaderGet(header_map, "business_use")),
                GetCellValue(row, HeaderGet(header_map, "business_tax_cat")),
                GetCellValue(row, HeaderGet(header_map, "business_percent_tax")), filename),
             LAMBDA b :
         Let(ParseSegment(b.m,
                GetCellValue(row, HeaderGet(header_map, "personal_use")),
                GetCellValue(row, HeaderGet(header_map, "personal_tax_cat")),
                GetCellValue(row, HeaderGet(header_map, "personal_percent_tax")), filename),
             LAMBDA p :
         Let(EmitDecision(b, p), LAMBDA emit :
             [m |-> p.m,
              business_record |->
                  IF emit[1] THEN Some(SegmentRecord(geocode, current_id, CUSTOMER_BUSINESS, b))
                  ELSE None,
              personal_record |->
                  IF emit[2] THEN Some(SegmentRecord(geocode, current_id, CUSTOMER_PERSONAL, p))
                  ELSE None]))))

\* the copies of one template, one per tax type (mapper.py 164-182)
CopiesPerTaxType(record, tax_types) ==
    [i \in 1..Len(tax_types) |-> [record EXCEPT !.tax_type = tax_types[i]]]

\* mutant: a template without tax types is kept with the default tax type
RECURSIVE ExpandRecordsByTaxTypes_defaults(_, _, _, _)
ExpandRecordsByTaxTypes_defaults(m, records, geocode, filename) ==
    IF records = <<>> THEN [m |-> m, records |-> <<>>]
    ELSE IF IsNone(Head(records))
         THEN ExpandRecordsByTaxTypes_defaults(m, Tail(records), geocode, filename)
    ELSE Let(Val(Head(records)), LAMBDA record :
         Let(GetTaxTypesWithHierarchyFallback(record.geocode, record.tax_cat), LAMBDA found :
         Let(ExpandRecordsByTaxTypes_defaults(m, Tail(records), geocode, filename), LAMBDA rest :
             [m |-> rest.m,
              records |-> CopiesPerTaxType(record,
                              IF IsNone(found) THEN <<TAX_TYPE_DEFAULT>> ELSE Val(found))
                          \o rest.records])))

\* RowMapper._expand_records_by_tax_types; records is a list of Optional[Record]
RECURSIVE ExpandRecordsByTaxTypes(_, _, _, _)
ExpandRecordsByTaxTypes(m, records, geocode, filename) ==
    IF records = <<>> THEN [m |-> m, records |-> <<>>]
    ELSE IF IsNone(Head(records)) THEN ExpandRecordsByTaxTypes(m, Tail(records), geocode, filename)
    ELSE Let(Val(Head(records)), LAMBDA record :
         Let(GetTaxTypesWithHierarchyFallback(record.geocode, record.tax_cat), LAMBDA tax_types :
             IF IsNone(tax_types)
             THEN Let(TrackMissingTaxTypeIssue(m, filename, record.geocode, record.tax_cat,
                                               record.item),
                      LAMBDA tracked :
                          ExpandRecordsByTaxTypes(tracked, Tail(records), geocode, filename))
             ELSE Let(ExpandRecordsByTaxTypes(m, Tail(records), geocode, filename), LAMBDA rest :
                      [m |-> rest.m,
                       records |-> CopiesPerTaxType(record, Val(tax_types)) \o rest.records])))

\* the body of the row loop of _process_rows_for_geocode (mapper.py 406-432);
\* templates are the two Optional records convert_row_to_records returned
ProcessRow(m, row, header_map, geocode, filename) ==
    IF Upper(GetCellValue(row, HeaderGet(header_map, "admin"))) # Upper(admin_filter_value)
    THEN [m |-> m, records |-> <<>>, templates |-> <<None, None>>]
    ELSE Let(ConvertRowToRecords(m, row, header_map, geocode, filename), LAMBDA conv :
         Let(<<conv.business_record, conv.personal_record>>, LAMBDA templates :
         Let(ExpandRecordsByTaxTypes(conv.m, templates, geocode, filename), LAMBDA exp :
             [m |-> exp.m, records |-> exp.records, templates |-> templates])))

RECURSIVE ProcessRowsForGeocodeLoop(_, _, _, _, _)
ProcessRowsForGeocodeLoop(m, rows, header_map, geocode, filename) ==
    IF rows = <<>> THEN [m |-> m, records |-> <<>>]
    ELSE Let(ProcessRow(m, Head(rows), header_map, geocode, filename), LAMBDA first :
         Let(ProcessRowsForGeocodeLoop(first.m, Tail(rows), header_map, geocode, filename),
             LAMBDA rest : [m |-> rest.m, records |-> first.records \o rest.records]))

\* RowMapper._process_rows_for_geocode
ProcessRowsForGeocode(m, rows, header_map, geocode, filename) ==
    IF IsNone(HeaderGet(header_map, "admin")) THEN [m |-> m, records |-> <<>>]
    ELSE ProcessRowsForGeocodeLoop(m, rows, header_map, geocode, filename)

\* mutant: only the first geocode of the file is processed
ProcessGeocodes_first_only(m, rows, header_map, geocodes, filename) ==
    IF geocodes = <<>> THEN [m |-> m, records |-> <<>>]
    ELSE ProcessRowsForGeocode(m, rows, header_map, Head(geocodes), filename)

\* the loop over the geocodes in process_sheet_rows
RECURSIVE ProcessGeocodes(_, _, _, _, _)
ProcessGeocodes(m, rows, header_map, geocodes, filename) ==
    IF geocodes = <<>> THEN [m |-> m, records |-> <<>>]
    ELSE Let(ProcessRowsForGeocode(m, rows, header_map, Head(geocodes), filename), LAMBDA first :
         Let(ProcessGeocodes(first.m, rows, header_map, Tail(geocodes), filename),
             LAMBDA rest : [m |-> rest.m, records |-> first.records \o rest.records]))

(* The RowMapper object: self.processing_errors is a reference to a list     *)
(* object; the lists live in heap, self = [heap, errors_ref, missing].      *)

\* RowMapper.__init__
NewRowMapper == [heap |-> <<<<>>>>, errors_ref |-> 1, missing |-> <<>>]

\* mutant: the error list is emptied in place, the attribute keeps its object
ClearErrors_in_place(self) ==
    [heap |-> [self.heap EXCEPT ![self.errors_ref] = <<>>], errors_ref |-> self.errors_ref,
     missing |-> <<>>]

\* RowMapper._clear_errors: both attributes are rebound to fresh objects
ClearErrors(self) ==
    [heap |-> Append(self.heap, <<>>), errors_ref |-> Len(self.heap) + 1, missing |-> <<>>]

\* the mutable state the methods work on, and its write-back
Contents(self) == [errors |-> self.heap[self.errors_ref], missing |-> self.missing]
Store(self, m) ==
    [heap |-> [self.heap EXCEPT ![self.errors_ref] = m.errors],
     errors_ref |-> self.errors_ref, missing |-> m.missing]

\* a formatted message: its fixed text and the value it embeds
Message(text, arg) == [text |-> text, arg |-> arg]

\* RowMapper.process_sheet_rows: (records, error message, processing_errors)
\* and the mapper it leaves; processing_errors is the list object returned
ProcessSheetRows(self, rows, header_map, filename) ==
    Let(ClearErrors(self), LAMBDA s0 :
    Let(GetGeocodesForLocation(filename), LAMBDA geocodes :
        IF geocodes = <<>>
        THEN [self |-> s0, records |-> <<>>,
              error |-> Some(Message("Could not determine geocode(s) for filename", filename)),
              processing_errors |-> s0.errors_ref]
        ELSE Let(ProcessGeocodes(Contents(s0), rows, header_map, geocodes, filename), LAMBDA done :
                 [self |-> Store(s0, CreateMissingTaxTypeSummaryErrors(done.m)),
                  records |-> done.records, error |-> None,
                  processing_errors |-> s0.errors_ref])))

-----------------------------------------------------------------------------
(* SheetWorker (worker.py): the product catalog of one sheet *)

\* str.split on one separator character
RECURSIVE SplitFrom(_, _, _)
SplitFrom(s, sep, acc) ==
    IF s = <<>> THEN <<acc>>
    ELSE IF Head(s) = sep THEN <<acc>> \o SplitFrom(Tail(s), sep, <<>>)
    ELSE SplitFrom(Tail(s), sep, Append(acc, Head(s)))
Split(s, sep) == SplitFrom(s, sep, <<>>)

\* sep.join(parts)
RECURSIVE Join(_, _)
Join(parts, sep) ==
    IF parts = <<>> THEN <<>>
    ELSE IF Len(parts) = 1 THEN parts[1]
    ELSE parts[1] \o sep \o Join(Tail(parts), sep)

IdParts == 8
ZERO == <<"0">>
DOT == <<".">>
BAR == <<" ","|"," ">>
SPACE == <<" ">>

\* mutant: a level is taken when its last kept segment is not zero
ParseHierarchicalId_last_kept(item_id) ==
    LET split == Split(item_id, ".")
        padded == split \o [i \in 1..(IdParts - Len(split)) |-> ZERO]
        parts == SubSeq(padded, 1, IdParts)
        ParentAt(level) == Join(SubSeq(parts, 1, level) \o [i \in 1..(IdParts - level) |-> ZERO], DOT)
        Levels[level \in 1..IdParts] ==
            IF level = IdParts THEN <<>>
            ELSE (IF parts[level] = ZERO \/ ParentAt(level) = Join(parts, DOT) THEN <<>>
                  ELSE <<ParentAt(level)>>) \o Levels[level + 1]
    IN  Levels[1]

\* SheetWorker._parse_hierarchical_id: the parent ids, shallowest first
ParseHierarchicalId(item_id) ==
    LET split == Split(item_id, ".")
        padded == split \o [i \in 1..(IdParts - Len(split)) |-> ZERO]
        parts == SubSeq(padded, 1, IdParts)
        ParentAt(level) == Join(SubSeq(parts, 1, level) \o [i \in 1..(IdParts - level) |-> ZERO], DOT)
        Levels[level \in 1..IdParts] ==
            IF level = IdParts THEN <<>>
            ELSE (IF parts[level + 1] = ZERO \/ ParentAt(level) = item_id THEN <<>>
                  ELSE <<ParentAt(level)>>) \o Levels[level + 1]
    IN  Levels[1]

DescFirstCol == 2
DescLastCol == 9

\* the non-empty stripped cells of columns C..J, concatenated
RECURSIVE DescriptionParts(_, _)
DescriptionParts(row_data, col_idx) ==
    IF col_idx > DescLastCol THEN <<>>
    ELSE (IF Len(row_data) > col_idx /\ Strip(row_data[col_idx + 1]) # <<>>
          THEN Strip(row_data[col_idx + 1]) ELSE <<>>)
         \o DescriptionParts(row_data, col_idx + 1)

\* SheetWorker._build_description_lookup: item id -> description, a later row
\* of the same id replaces the earlier one
RECURSIVE BuildDescriptionLookup(_, _, _)
BuildDescriptionLookup(sheet_data, header_mapping, lookup_dict) ==
    LET current_id_col_idx == HeaderGet(header_mapping, "current_id")
        row_data == Head(sheet_data)
        item_id == GetCellValue(row_data, current_id_col_idx)
        description == Strip(DescriptionParts(row_data, DescFirstCol))
    IN  IF IsNone(current_id_col_idx) \/ sheet_data = <<>> THEN lookup_dict
        ELSE IF item_id = <<>>
             THEN BuildDescriptionLookup(Tail(sheet_data), header_mapping, lookup_dict)
        ELSE BuildDescriptionLookup(Tail(sheet_data), header_mapping,
                 (item_id :> description) @@ lookup_dict)

\* lookup_dict.get(key, "").strip(), a space when that is empty
DescriptionOrSpace(lookup_dict, key) ==
    LET desc == IF key \in DOMAIN lookup_dict THEN Strip(lookup_dict[key]) ELSE <<>>
    IN  IF desc # <<>> THEN desc ELSE SPACE

\* mutant: an id without text contributes no component
BuildHierarchicalDescription_skips_missing(item_id, lookup_dict) ==
    LET parent_ids == ParseHierarchicalId(item_id)
        chain == parent_ids \o <<item_id>>
        present == SelectSeq(chain, LAMBDA x : DescriptionOrSpace(lookup_dict, x) # SPACE)
    IN  Join([i \in 1..Len(present) |-> DescriptionOrSpace(lookup_dict, present[i])], BAR)

\* SheetWorker._build_hierarchical_description
BuildHierarchicalDescription(item_id, lookup_dict) ==
    LET parent_ids == ParseHierarchicalId(item_id)
        description_parts ==
            [i \in 1..Len(parent_ids) |-> DescriptionOrSpace(lookup_dict, parent_ids[i])]
                \o <<DescriptionOrSpace(lookup_dict, item_id)>>
    IN  Join(description_parts, BAR)

\* ProductItem.__init__
ProductItem(item_id, description) ==
    [group |-> GROUP_DEFAULT, item |-> Strip(item_id), description |-> Strip(description)]

\* the cell at a 0-based column, stripped; empty when the row is too short
CellAt(row_data, col_idx) ==
    IF Len(row_data) > col_idx THEN Strip(row_data[col_idx + 1]) ELSE <<>>

\* the product item of one row, if the row yields one (worker.py 196-241)
ProductItemOfRow(row_data, header_mapping, description_lookup) ==
    LET admin_value == CellAt(row_data, Val(HeaderGet(header_mapping, "admin")))
        item_id == CellAt(row_data, Val(HeaderGet(header_mapping, "current_id")))
        Uncertain(key) ==
            /\ ~IsNone(HeaderGet(header_mapping, key))
            /\ Upper(CellAt(row_data, Val(HeaderGet(header_mapping, key))))
                   \in uncertain_taxable_values
    IN  IF admin_value # admin_filter_value THEN <<>>
        ELSE IF item_id = <<>> THEN <<>>
        ELSE IF Uncertain("business_use") \/ Uncertain("personal_use") THEN <<>>
        ELSE Let(BuildHierarchicalDescription(item_id, description_lookup),
                 LAMBDA hierarchical_description :
             Let(ProductItem(item_id, hierarchical_description), LAMBDA product_item :
                 IF Strip(hierarchical_description) = <<>> THEN <<>>
                 ELSE IF product_item.item # <<>> /\ product_item.description # <<>>
                      THEN <<product_item>>
                 ELSE <<>>))

RECURSIVE ProductItemsOfRows(_, _, _)
ProductItemsOfRows(rows, header_mapping, description_lookup) ==
    IF rows = <<>> THEN <<>>
    ELSE ProductItemOfRow(Head(rows), header_mapping, description_lookup)
             \o ProductItemsOfRows(Tail(rows), header_mapping, description_lookup)

\* SheetWorker._extract_product_items_from_rows
ExtractProductItemsFromRows(sheet_data, header_mapping) ==
    IF IsNone(HeaderGet(header_mapping, "admin")) THEN <<>>
    ELSE IF IsNone(HeaderGet(header_mapping, "current_id")) THEN <<>>
    ELSE Let(BuildDescriptionLookup(sheet_data, header_mapping, <<>>), LAMBDA description_lookup :
             ProductItemsOfRows(sheet_data, header_mapping, description_lookup))

\* rows_processed: the rows whose Admin cell equals the filter value
\* (worker.py 335-342)
RowsProcessed(sheet_data, header_mapping) ==
    LET admin_col_idx == HeaderGet(header_mapping, "admin")
    IN  IF IsNone(admin_col_idx) THEN 0
        ELSE Cardinality({i \in 1..Len(sheet_data) :
                 /\ Len(sheet_data[i]) > Val(admin_col_idx)
                 /\ Strip(sheet_data[i][Val(admin_col_idx) + 1]) = admin_filter_value})

-----------------------------------------------------------------------------
(* Inputs *)

ID1 == <<"1",".","4",".","0">>
ID2 == <<"2",".","0">>
ID3 == <<"3">>

USE_TAXABLE == <<"T","a","x","a","b","l","e">>
USE_EXEMPT == <<" ","e","x","e","m","p","t">>
USE_DRILL == <<"d","r","i","l","l"," ","d","o","w","n">>
USE_RESEARCH == <<"T","o"," ","R","e","s","e","a","r","c","h">>
USE_MAYBE == <<"M","a","y","b","e">>

PCT_100 == <<"1","0","0","%">>
PCT_ONE == <<"1",".","0">>
PCT_875 == <<"8",".","7","5","%">>
PCT_BAD == <<"a","b","c">>
PCT_LONG == <<"0",".","0","0","0","0","0","1","5">>

ADMIN_TAG == <<"T","a","g"," ","L","e","v","e","l">>
ADMIN_OTHER == <<"N","o">>

UseTexts == {<<>>, USE_TAXABLE, USE_EXEMPT, USE_DRILL, USE_RESEARCH, USE_MAYBE}
CatTexts == {<<>>, GENERAL, FOOD, OTHER_CAT}
PercentTexts == {<<>>, PCT_100, PCT_ONE, PCT_875, PCT_BAD, PCT_LONG}
RowGeocodes == {CO_STATE, BOULDER, CHICAGO_A}

\* the sheet layout of the repository's fixtures: B = Current ID, E..G the
\* business columns, H..J the personal columns, K = Admin
StdHeaderMap ==
    [admin |-> Some(10), current_id |-> Some(1),
     business_use |-> Some(4), business_tax_cat |-> Some(5), business_percent_tax |-> Some(6),
     personal_use |-> Some(7), personal_tax_cat |-> Some(8), personal_percent_tax |-> Some(9)]

MakeRow(id, bu, bc, bp, pu, pc, pp, admin) ==
    << <<>>, id, <<"L","1">>, <<>>, bu, bc, bp, pu, pc, pp, admin >>

RowFile == "Colorado Sales Tax Research"

-----------------------------------------------------------------------------
(* SpecRow: one row through convert_row_to_records and                      *)
(* _expand_records_by_tax_types, on a fresh RowMapper                       *)

\* no concurrent run takes place in the sequential specifications
NoRun ==
    /\ file_list = <<>>
    /\ max_concurrency = 0
    /\ shared_header_mapping = None
    /\ semaphore = 0
    /\ tasks = <<>>
    /\ processed_results = None
    /\ main = "idle"

\* ProductCodeMapper.__init__: no mapping is loaded, no id is tracked
NewProductCodeMapper ==
    /\ mapping = <<>>
    /\ unmapped_ids = {}

FreshMapper ==
    /\ heap = NewRowMapper.heap
    /\ errors_ref = NewRowMapper.errors_ref
    /\ missing_issues = NewRowMapper.missing

\* the RowMapper object as the variables hold it
Self == [heap |-> heap, errors_ref |-> errors_ref, missing |-> missing_issues]

\* the Record objects convert_row_to_records constructed (mapper.py 322-384):
\* objects is the store of Record objects, a reference is a position in it
TemplateObjects(templates) ==
    Let((IF IsNone(templates[1]) THEN <<>> ELSE <<Val(templates[1])>>)
            \o (IF IsNone(templates[2]) THEN <<>> ELSE <<Val(templates[2])>>),
        LAMBDA objects :
            [objects |-> objects,
             refs |-> <<IF IsNone(templates[1]) THEN None ELSE Some(1),
                        IF IsNone(templates[2]) THEN None ELSE Some(Len(objects))>>])

\* mutant: the tax type is assigned on the template, which is appended itself
RECURSIVE ExpandTemplate_in_place(_, _, _, _)
ExpandTemplate_in_place(objects, ref, tax_types, i) ==
    IF i > Len(tax_types) THEN [objects |-> objects, expanded |-> <<>>]
    ELSE Let(ExpandTemplate_in_place([objects EXCEPT ![ref].tax_type = tax_types[i]],
                                     ref, tax_types, i + 1),
             LAMBDA rest : [objects |-> rest.objects, expanded |-> <<ref>> \o rest.expanded])

\* mapper.py 164-182: for each tax type a Record constructed from the fields of
\* the template, appended to expanded_records
RECURSIVE ExpandTemplate(_, _, _, _)
ExpandTemplate(objects, ref, tax_types, i) ==
    IF i > Len(tax_types) THEN [objects |-> objects, expanded |-> <<>>]
    ELSE Let(Append(objects,
                    [geocode |-> objects[ref].geocode, tax_auth_id |-> objects[ref].tax_auth_id,
                     group |-> objects[ref].group, item |-> objects[ref].item,
                     customer |-> objects[ref].customer, provider |-> objects[ref].provider,
                     transaction |-> objects[ref].transaction, taxable |-> objects[ref].taxable,
                     tax_type |-> tax_types[i], tax_cat |-> objects[ref].tax_cat,
                     effective |-> objects[ref].effective,
                     per_taxable_type |-> objects[ref].per_taxable_type,
                     percent_taxable |-> objects[ref].percent_taxable]),
             LAMBDA allocated :
         Let(ExpandTemplate(allocated, ref, tax_types, i + 1), LAMBDA rest :
             [objects |-> rest.objects, expanded |-> <<Len(allocated)>> \o rest.expanded]))

\* RowMapper._expand_records_by_tax_types on the Record objects (mapper.py
\* 147-184): refs are the Optional references of the templates
RECURSIVE ExpandRecordObjects(_, _)
ExpandRecordObjects(objects, refs) ==
    IF refs = <<>> THEN [objects |-> objects, expanded |-> <<>>]
    ELSE IF IsNone(Head(refs)) THEN ExpandRecordObjects(objects, Tail(refs))
    ELSE Let(GetTaxTypesWithHierarchyFallback(objects[Val(Head(refs))].geocode,
                                              objects[Val(Head(refs))].tax_cat),
             LAMBDA tax_types :
                 IF IsNone(tax_types) THEN ExpandRecordObjects(objects, Tail(refs))
                 ELSE Let(ExpandTemplate(objects, Val(Head(refs)), Val(tax_types), 1),
                          LAMBDA own :
                      Let(ExpandRecordObjects(own.objects, Tail(refs)), LAMBDA rest :
                          [objects |-> rest.objects,
                           expanded |-> own.expanded \o rest.expanded])))

RowInit ==
    /\ FreshMapper
    /\ NewProductCodeMapper
    /\ NoRun
    /\ \E id \in {<<>>, ID1}, bu \in UseTexts, bc \in CatTexts, bp \in PercentTexts,
          pu \in UseTexts, pc \in CatTexts, pp \in PercentTexts, g \in RowGeocodes :
          call = [pc |-> "start", row |-> MakeRow(id, bu, bc, bp, pu, pc, pp, ADMIN_TAG),
                  geocode |-> g, templates |-> <<None, None>>, records |-> <<>>,
                  template_refs |-> <<None, None>>, objects |-> <<>>, expanded |-> <<>>]

\* the row loop body applied to the drawn row
RowStep ==
    /\ call.pc = "start"
    /\ \E r \in {ProcessRow(Contents(Self), call.row, StdHeaderMap, call.geocode, RowFile)} :
          /\ \E after \in {Store(Self, r.m)} :
                /\ heap' = after.heap
                /\ errors_ref' = after.errors_ref
                /\ missing_issues' = after.missing
          /\ \E made \in {TemplateObjects(r.templates)} :
             \E exp \in {ExpandRecordObjects(made.objects, made.refs)} :
                call' = [call EXCEPT !.pc = "done", !.templates = r.templates,
                                     !.records = r.records, !.template_refs = made.refs,
                                     !.objects = exp.objects, !.expanded = exp.expanded]
          /\ UNCHANGED <<runVars, codeVars>>

RowNext == RowStep

SpecRow == RowInit /\ [][RowNext]_vars

-----------------------------------------------------------------------------
(* The drawn row of SpecRow, read the way the claims describe it *)

RowCell(key) == GetCellValue(call.row, StdHeaderMap[key])
RowDone == call.pc = "done"
RowHasId == RowCell("current_id") # <<>>

KnownUse(use) == Strip(Upper(use)) \in DOMAIN taxable_mappings
UncertainUse(use) == Strip(Upper(use)) \in uncertain_taxable_values
\* a segment is valid: usage text in the known vocabulary, percent parseable
SegmentValid(use, percent) == KnownUse(use) /\ ~IsNone(ParsePercentTaxable(percent))
\* (taxable status, resolved tax-category code, parsed percent)
Triple(use, cat, percent) ==
    <<taxable_mappings[Strip(Upper(use))], GetTaxCatCodeOrDefault(cat),
      Val(ParsePercentTaxable(percent))>>

BusinessValid == SegmentValid(RowCell("business_use"), RowCell("business_percent_tax"))
PersonalValid == SegmentValid(RowCell("personal_use"), RowCell("personal_percent_tax"))
BusinessTriple ==
    Triple(RowCell("business_use"), RowCell("business_tax_cat"), RowCell("business_percent_tax"))
PersonalTriple ==
    Triple(RowCell("personal_use"), RowCell("personal_tax_cat"), RowCell("personal_percent_tax"))

BusinessTemplate == call.templates[1]
PersonalTemplate == call.templates[2]
TemplateCount ==
    (IF IsNone(BusinessTemplate) THEN 0 ELSE 1) + (IF IsNone(PersonalTemplate) THEN 0 ELSE 1)

\* the template carries the segment's customer code and the values of triple
Carries(template, customer, triple) ==
    /\ ~IsNone(template)
    /\ Val(template).customer = customer
    /\ Val(template).taxable = triple[1]
    /\ Val(template).tax_cat = triple[2]
    /\ Val(template).percent_taxable = FormatFixed6(triple[3])
    /\ Val(template).item = RowCell("current_id")
    /\ Val(template).geocode = call.geocode

\* C1: a row with an id whose two segments are valid and have equal triples
\* (taxable, tax category, percent) yields exactly one template: the personal
\* one; the business template is absent.
C1_IdenticalTreatmentOnlyPersonal ==
    (RowDone /\ RowHasId /\ BusinessValid /\ PersonalValid /\ BusinessTriple = PersonalTriple)
        => /\ TemplateCount = 1
           /\ IsNone(BusinessTemplate)
           /\ Carries(PersonalTemplate, CUSTOMER_PERSONAL, PersonalTriple)

\* C1 witness: equal treatment written differently ("100%" and "1.0"), one
\* personal template
C1_Witness ==
    /\ RowDone /\ RowHasId /\ BusinessValid /\ PersonalValid
    /\ BusinessTriple = PersonalTriple
    /\ RowCell("business_percent_tax") = PCT_100 /\ RowCell("personal_percent_tax") = PCT_ONE
    /\ IsNone(BusinessTemplate) /\ ~IsNone(PersonalTemplate)
    /\ Val(PersonalTemplate).customer = CUSTOMER_PERSONAL

TwoTemplatesOnePerSegment ==
    /\ TemplateCount = 2
    /\ Carries(BusinessTemplate, CUSTOMER_BUSINESS, BusinessTriple)
    /\ Carries(PersonalTemplate, CUSTOMER_PERSONAL, PersonalTriple)

\* C2 as stated: every row whose two segments are valid with different triples
\* yields two templates, one per segment.
C2_Original ==
    (RowDone /\ BusinessValid /\ PersonalValid /\ BusinessTriple # PersonalTriple)
        => TwoTemplatesOnePerSegment

\* C2 amended: every row with a non-empty id whose two segments are valid with
\* triples that differ in at least one component yields exactly two templates,
\* the business one with the business values and the personal one with the
\* personal values.
C2_DifferentTreatmentBoth ==
    (RowDone /\ RowHasId /\ BusinessValid /\ PersonalValid /\ BusinessTriple # PersonalTriple)
        => TwoTemplatesOnePerSegment

\* C2 witness: the segments differ in the percent alone, two templates
C2_Witness ==
    /\ RowDone /\ RowHasId /\ BusinessValid /\ PersonalValid
    /\ BusinessTriple[1] = PersonalTriple[1] /\ BusinessTriple[2] = PersonalTriple[2]
    /\ BusinessTriple[3] # PersonalTriple[3]
    /\ TwoTemplatesOnePerSegment

\* C3: a template exists only for a valid segment; with an id and exactly one
\* valid segment there is exactly one template and it is that segment's; with
\* no valid segment, or no id, there is no template.
C3_SingleValidSegment ==
    RowDone =>
        /\ ~IsNone(BusinessTemplate) => BusinessValid
        /\ ~IsNone(PersonalTemplate) => PersonalValid
        /\ (RowHasId /\ BusinessValid /\ ~PersonalValid)
              => /\ TemplateCount = 1
                 /\ Carries(BusinessTemplate, CUSTOMER_BUSINESS, BusinessTriple)
        /\ (RowHasId /\ PersonalValid /\ ~BusinessValid)
              => /\ TemplateCount = 1
                 /\ Carries(PersonalTemplate, CUSTOMER_PERSONAL, PersonalTriple)
        /\ ((~BusinessValid /\ ~PersonalValid) \/ ~RowHasId) => TemplateCount = 0

\* C3 witness: the taxable status of the personal segment parsed, its percent
\* did not; the business template is the only one
C3_Witness ==
    /\ RowDone /\ RowHasId /\ BusinessValid
    /\ KnownUse(RowCell("personal_use")) /\ ~PersonalValid
    /\ TemplateCount = 1 /\ ~IsNone(BusinessTemplate)

\* the tax types resolved for a template at the row's geocode
ResolvedTypes(template) ==
    IF IsNone(template) THEN <<>>
    ELSE LET found == GetTaxTypesWithHierarchyFallback(call.geocode, Val(template).tax_cat)
         IN  IF IsNone(found) THEN <<>> ELSE Val(found)

\* the records expanded from a template: equal to it except for the tax type
RecordsOf(template) ==
    SelectSeq(call.records, LAMBDA r : [r EXCEPT !.tax_type = TAX_TYPE_DEFAULT] = Val(template))

ExpectedUseErrors(use) ==
    IF use # <<>> /\ ~KnownUse(use) /\ ~UncertainUse(use)
    THEN <<ProcessingError(RowFile, "UnknownTaxableValueError", use, <<>>, <<>>, 0, <<>>)>>
    ELSE <<>>

\* C10: an uncertain usage text yields no status and no error; any other text
\* outside the known vocabulary yields no status and one data-quality error;
\* only that segment is skipped, the other one is still evaluated; no Record
\* has a taxable value other than 0 or 1.
C10_TaxableParsing ==
    (RowDone /\ RowHasId) =>
        /\ heap[errors_ref] = ExpectedUseErrors(RowCell("business_use"))
                                 \o ExpectedUseErrors(RowCell("personal_use"))
        /\ ~KnownUse(RowCell("business_use")) =>
              /\ IsNone(BusinessTemplate)
              /\ PersonalValid => Carries(PersonalTemplate, CUSTOMER_PERSONAL, PersonalTriple)
        /\ ~KnownUse(RowCell("personal_use")) =>
              /\ IsNone(PersonalTemplate)
              /\ BusinessValid => Carries(BusinessTemplate, CUSTOMER_BUSINESS, BusinessTriple)
        /\ \A i \in 1..Len(call.records) : call.records[i].taxable \in {NOT_TAXABLE, TAXABLE}
        /\ \A t \in {BusinessTemplate, PersonalTemplate} :
              ~IsNone(t) => Val(t).taxable \in {NOT_TAXABLE, TAXABLE}

\* C10 witness: an uncertain business segment and an unknown personal text:
\* one error, for the personal text alone, and no template
C10_Witness ==
    /\ RowDone /\ RowHasId
    /\ UncertainUse(RowCell("business_use"))
    /\ RowCell("personal_use") = USE_MAYBE
    /\ Len(heap[errors_ref]) = 1
    /\ heap[errors_ref][1].text = USE_MAYBE
    /\ TemplateCount = 0

\* C10 witness of the other half: an uncertain segment beside a valid one
C10_WitnessOtherEvaluated ==
    /\ RowDone /\ RowHasId
    /\ UncertainUse(RowCell("personal_use")) /\ BusinessValid
    /\ heap[errors_ref] = <<>>
    /\ ~IsNone(BusinessTemplate) /\ Len(call.records) > 0

-----------------------------------------------------------------------------
(* SpecLookup: one call of get_tax_types_with_hierarchy_fallback *)

UNKNOWN_STATE == <<"U","S","0","6","0","0","0","0","0","0","0","0">>
DENVER == <<"U","S","0","8","0","3","1","A","0","0","0","1">>
BOULDER_LOWER == <<"u","s","0","8","0","1","3","a","0","0","2","5">>
BOULDER_PADDED == <<" ">> \o BOULDER \o <<" ">>
SHORT_CODE == <<"A","B">>
BLANK == <<" "," ">>
T01_PADDED == <<" ">> \o T01 \o <<" ">>

LookupGeocodes ==
    {<<>>, BLANK, CO_STATE, IL_STATE, BOULDER, CHICAGO_A, CHICAGO_B, UNKNOWN_STATE, DENVER,
     BOULDER_LOWER, BOULDER_PADDED, SHORT_CODE}
LookupTaxCats == {<<>>, BLANK, T01, T02, T03, T01_PADDED}

LookupInit ==
    /\ FreshMapper
    /\ NewProductCodeMapper
    /\ NoRun
    /\ \E g \in LookupGeocodes, c \in LookupTaxCats :
          call = [pc |-> "start", geocode |-> g, tax_cat |-> c, result |-> None,
                  lookups |-> <<>>]

LookupStep ==
    /\ call.pc = "start"
    /\ call' = [call EXCEPT !.pc = "done",
                            !.result = GetTaxTypesWithHierarchyFallback(call.geocode, call.tax_cat),
                            !.lookups = FallbackLookups(call.geocode, call.tax_cat)]
    /\ UNCHANGED <<mapperVars, runVars, codeVars>>

LookupNext == LookupStep

SpecLookup == LookupInit /\ [][LookupNext]_vars

\* the table's entries for a geocode and a category, both trimmed and in
\* upper case; the empty list when there are none
Entries(geocode, tax_cat) ==
    LET key == <<Upper(Strip(geocode)), Upper(Strip(tax_cat))>>
    IN  IF key \in DOMAIN tax_type_lookup THEN tax_type_lookup[key] ELSE <<>>

\* the state geocode above a geocode: its first four characters, then zeros
ParentState(geocode) ==
    LET g == Upper(Strip(geocode))
    IN  [i \in 1..GeocodeLen |-> IF i <= StatePrefixLen /\ i <= Len(g) THEN g[i] ELSE "0"]

Elements(seq) == {seq[i] : i \in 1..Len(seq)}

\* C5: get_tax_types_with_hierarchy_fallback returns exactly the geocode's own
\* entries for the category when it has some, otherwise exactly the entries of
\* its parent state geocode, never the union of the two, and None when neither
\* has entries or when the geocode or the category is empty.
C5_HierarchyFallback ==
    call.pc = "done" =>
        LET own == Entries(call.geocode, call.tax_cat)
            parent == Entries(ParentState(call.geocode), call.tax_cat)
        IN  /\ (Strip(call.geocode) = <<>> \/ Strip(call.tax_cat) = <<>>) => IsNone(call.result)
            /\ (Strip(call.geocode) # <<>> /\ Strip(call.tax_cat) # <<>>) =>
                  /\ own # <<>> => call.result = Some(own)
                  /\ (own = <<>> /\ parent # <<>>) => call.result = Some(parent)
                  /\ (own = <<>> /\ parent = <<>>) => IsNone(call.result)
                  /\ (own # <<>> /\ parent # <<>> /\ Elements(own) # Elements(parent)) =>
                        Elements(Val(call.result)) # Elements(own) \cup Elements(parent)

\* C5 witness: a city with entries of its own under a state with other entries
\* for the same category; the result is the city's list alone
C5_Witness ==
    /\ call.pc = "done"
    /\ call.geocode = BOULDER_LOWER /\ call.tax_cat = T01_PADDED
    /\ Entries(ParentState(call.geocode), call.tax_cat) = <<T01, T02, T03>>
    /\ call.result = Some(<<T01, T04>>)

\* C5 second witness: a city without entries receives its state's entries
C5_WitnessFallback ==
    /\ call.pc = "done"
    /\ call.geocode = BOULDER /\ call.tax_cat = T02
    /\ Entries(call.geocode, call.tax_cat) = <<>>
    /\ call.result = Some(<<T01>>)

-----------------------------------------------------------------------------
(* SpecFile: one call of process_sheet_rows on a fresh RowMapper *)

ADMIN_LOWER == <<"t","a","g"," ","l","e","v","e","l">>

\* two templates of a category without tax types anywhere
ROW_A == MakeRow(ID1, USE_TAXABLE, OTHER_CAT, PCT_100, USE_TAXABLE, OTHER_CAT, PCT_875, ADMIN_TAG)
\* identical treatment: one template
ROW_B == MakeRow(ID2, USE_TAXABLE, FOOD, PCT_100, USE_TAXABLE, FOOD, PCT_ONE, ADMIN_TAG)
ROW_C == MakeRow(ID3, USE_TAXABLE, GENERAL, PCT_100, USE_EXEMPT, OTHER_CAT, PCT_100, ADMIN_LOWER)
\* an unknown and an uncertain usage text
ROW_D == MakeRow(ID1, USE_MAYBE, GENERAL, PCT_100, USE_DRILL, <<>>, <<>>, ADMIN_TAG)
\* not an Admin row
ROW_E == MakeRow(ID2, USE_TAXABLE, GENERAL, PCT_100, USE_TAXABLE, GENERAL, PCT_100, ADMIN_OTHER)

RowPool == {ROW_A, ROW_B, ROW_C, ROW_D, ROW_E}
MaxRows == 3
RowLists == UNION {[1..n -> RowPool] : n \in 0..MaxRows}
FileNames ==
    {"Colorado Sales Tax Research", "Chicago Sales Tax Research", "Boulder Sales Tax Research",
     "Atlantis Sales Tax Research"}

FileInit ==
    /\ FreshMapper
    /\ NewProductCodeMapper
    /\ NoRun
    /\ \E f \in FileNames, rows \in RowLists :
          call = [pc |-> "start", filename |-> f, rows |-> rows, records |-> <<>>,
                  error |-> None, processing_errors |-> 0]

FileStep ==
    /\ call.pc = "start"
    /\ \E r \in {ProcessSheetRows(Self, call.rows, StdHeaderMap, call.filename)} :
          /\ heap' = r.self.heap
          /\ errors_ref' = r.self.errors_ref
          /\ missing_issues' = r.self.missing
          /\ call' = [call EXCEPT !.pc = "done", !.records = r.records, !.error = r.error,
                                  !.processing_errors = r.processing_errors]
    /\ UNCHANGED <<runVars, codeVars>>

FileNext == FileStep

SpecFile == FileInit /\ [][FileNext]_vars

EmptyMapper == [errors |-> <<>>, missing |-> <<>>]

\* the templates of the call that expansion excluded for want of a tax type:
\* (geocode index, row index, segment index)
Excluded ==
    LET geocodes == GetGeocodesForLocation(call.filename)
    IN  {x \in (1..Len(geocodes)) \X (1..Len(call.rows)) \X (1..2) :
            LET t == ProcessRow(EmptyMapper, call.rows[x[2]], StdHeaderMap, geocodes[x[1]],
                                call.filename).templates[x[3]]
            IN  /\ ~IsNone(t)
                /\ IsNone(GetTaxTypesWithHierarchyFallback(geocodes[x[1]], Val(t).tax_cat))}

ExcludedKey(x) ==
    LET g == GetGeocodesForLocation(call.filename)[x[1]]
        t == ProcessRow(EmptyMapper, call.rows[x[2]], StdHeaderMap, g, call.filename).templates[x[3]]
    IN  <<g, Val(t).tax_cat>>

ExcludedItem(x) == GetCellValue(call.rows[x[2]], StdHeaderMap["current_id"])

MissingErrors ==
    SelectSeq(heap[call.processing_errors], LAMBDA e : e.error_type = "MissingTaxTypeError")

\* C6: the errors process_sheet_rows returns hold exactly one MissingTaxTypeError
\* per (geocode, tax category) pair with at least one excluded template; its
\* count is the number of templates excluded for the pair and it lists at most
\* five item ids, each the id of an excluded template of the pair.
C6_MissingTaxTypeSummary ==
    call.pc = "done" =>
        /\ \A i, j \in 1..Len(MissingErrors) :
              (MissingErrors[i].geocode = MissingErrors[j].geocode
                  /\ MissingErrors[i].tax_cat = MissingErrors[j].tax_cat) => i = j
        /\ \A x \in Excluded :
              \E i \in 1..Len(MissingErrors) :
                  <<MissingErrors[i].geocode, MissingErrors[i].tax_cat>> = ExcludedKey(x)
        /\ \A i \in 1..Len(MissingErrors) :
              LET e == MissingErrors[i]
                  of_pair == {x \in Excluded : ExcludedKey(x) = <<e.geocode, e.tax_cat>>}
              IN  /\ e.file_name = call.filename
                  /\ e.count = Cardinality(of_pair)
                  /\ e.count >= 1
                  /\ Len(e.sample) <= 5
                  /\ Len(e.sample) = (IF e.count < 5 THEN e.count ELSE 5)
                  /\ \A k \in 1..Len(e.sample) : \E x \in of_pair : e.sample[k] = ExcludedItem(x)

\* C6 witness: more than five templates excluded for one pair, summarised in
\* one error with five ids, beside the error of another pair
C6_Witness ==
    /\ call.pc = "done"
    /\ Len(MissingErrors) >= 2
    /\ \E i \in 1..Len(MissingErrors) :
          /\ MissingErrors[i].count > 5
          /\ Len(MissingErrors[i].sample) = 5
    /\ Cardinality(Excluded) > Len(MissingErrors)

-----------------------------------------------------------------------------
(* Spec: process_sheets_concurrently (worker.py 375-464) over one shared     *)
(* RowMapper.  Coroutines run on one event loop: a task is suspended only at *)
(* an await that waits (the semaphore, a fetch of the sheets client), and    *)
(* each action below is the code a task runs between two such points.        *)

\* file_info of the Drive listing
F_CO == [id |-> "co", name |-> "Colorado Sales Tax Research"]
F_CHI == [id |-> "chi", name |-> "Chicago Sales Tax Research"]
F_ATL == [id |-> "atl", name |-> "Atlantis Sales Tax Research"]
F_IL == [id |-> "il", name |-> "Illinois Sales Tax Research"]
Files == {F_CO, F_CHI, F_ATL, F_IL}

\* the data rows of each spreadsheet; the Illinois sheet has none
SheetData(file_info) ==
    CASE file_info = F_CO -> <<ROW_B, ROW_C, ROW_D>>
      [] file_info = F_CHI -> <<ROW_B, ROW_D>>
      [] file_info = F_ATL -> <<ROW_A, ROW_D>>
      [] OTHER -> <<>>

MaxFiles == 2
FileLists ==
    {fl \in UNION {[1..n -> Files] : n \in 0..MaxFiles} :
        \A i, j \in 1..Len(fl) : fl[i] = fl[j] => i = j}
Concurrencies == {1, 2}

\* the header mapping of an empty header row: {}
NoHeaders == <<>>

\* a new list object: (heap, reference)
Alloc(h) == [heap |-> Append(h, <<>>), ref |-> Len(h) + 1]

\* the result dictionary of one file
Result(file_info, success, error, records, product_items, rows_processed, processing_errors) ==
    [file_id |-> file_info.id, file_name |-> file_info.name, success |-> success,
     error |-> error, records |-> records, product_items |-> product_items,
     rows_processed |-> rows_processed, processing_errors |-> processing_errors]

\* the failure results of process_sheet, processing_errors a new empty list
Failure(file_info, error, ref) == Result(file_info, FALSE, Some(error), <<>>, <<>>, 0, ref)

NoHeadersError == Message("No headers found in tab at row", "")
FetchError == Message("Failed to process sheet", "fetch failed")
TaskError == Message("Exception", "task raised")

NewTask ==
    [pc |-> "acquire", header_mapping |-> None, fault |-> "none", returned |-> None,
     raised |-> FALSE, result |-> None]

Init ==
    /\ FreshMapper
    /\ NewProductCodeMapper
    /\ call = [pc |-> "idle"]
    /\ file_list \in FileLists
    /\ max_concurrency \in Concurrencies
    /\ shared_header_mapping = None
    /\ semaphore = max_concurrency
    /\ tasks = [i \in 1..Len(file_list) |-> NewTask]
    /\ processed_results = None
    /\ main = "start"

\* worker.py 391-393
ReturnEmpty ==
    /\ main = "start"
    /\ file_list = <<>>
    /\ processed_results' = Some(<<>>)
    /\ main' = "done"
    /\ UNCHANGED <<mapperVars, call, codeVars, file_list, max_concurrency, shared_header_mapping,
                   semaphore, tasks>>

\* worker.py 400-416: the header mapping of the first file, for all files; a
\* failed fetch leaves None
FirstHeader(outcome) ==
    /\ main = "start"
    /\ file_list # <<>>
    /\ shared_header_mapping' =
          CASE outcome = "ok" -> Some(StdHeaderMap)
            [] outcome = "empty" -> Some(NoHeaders)
            [] outcome = "raise" -> None
    /\ main' = "gather"
    /\ UNCHANGED <<mapperVars, call, codeVars, file_list, max_concurrency, semaphore, tasks,
                   processed_results>>

\* tasks start in list order; a task enters the semaphore when a permit is free
CanAcquire(i) ==
    /\ main = "gather"
    /\ tasks[i].pc = "acquire"
    /\ \A j \in 1..(i - 1) : tasks[j].pc # "acquire"
    /\ semaphore > 0

\* process_with_semaphore: an exception raised outside process_sheet's try
\* block leaves the task through the semaphore's exit
AcquireRaise(i) ==
    /\ CanAcquire(i)
    /\ tasks' = [tasks EXCEPT ![i] = [@ EXCEPT !.pc = "done", !.raised = TRUE, !.fault = "task"]]
    /\ UNCHANGED <<mapperVars, call, codeVars, file_list, max_concurrency, shared_header_mapping,
                   semaphore, processed_results, main>>

\* process_sheet, header_mapping is None: the task awaits its own header fetch
AcquireFetchHeader(i) ==
    /\ CanAcquire(i)
    /\ IsNone(shared_header_mapping)
    /\ semaphore' = semaphore - 1
    /\ tasks' = [tasks EXCEPT ![i] = [@ EXCEPT !.pc = "header"]]
    /\ UNCHANGED <<mapperVars, call, codeVars, file_list, max_concurrency, shared_header_mapping,
                   processed_results, main>>

\* process_sheet, the shared header mapping is empty (worker.py 276-288)
AcquireNoHeaders(i) ==
    /\ CanAcquire(i)
    /\ ~IsNone(shared_header_mapping)
    /\ DOMAIN Val(shared_header_mapping) = {}
    /\ LET a == Alloc(heap)
       IN  /\ heap' = a.heap
           /\ tasks' = [tasks EXCEPT ![i] = [@ EXCEPT !.pc = "done",
                            !.result = Some(Failure(file_list[i], NoHeadersError, a.ref))]]
    /\ UNCHANGED <<errors_ref, missing_issues, call, codeVars, file_list, max_concurrency,
                   shared_header_mapping, semaphore, processed_results, main>>

\* process_sheet, the shared header mapping is used: the task awaits its data
AcquireFetchData(i) ==
    /\ CanAcquire(i)
    /\ ~IsNone(shared_header_mapping)
    /\ DOMAIN Val(shared_header_mapping) # {}
    /\ semaphore' = semaphore - 1
    /\ tasks' = [tasks EXCEPT ![i] = [@ EXCEPT !.pc = "data",
                     !.header_mapping = shared_header_mapping]]
    /\ UNCHANGED <<mapperVars, call, codeVars, file_list, max_concurrency, shared_header_mapping,
                   processed_results, main>>

\* the task's own get_header_mapping returned a mapping
HeaderFetched(i) ==
    /\ tasks[i].pc = "header"
    /\ tasks' = [tasks EXCEPT ![i] = [@ EXCEPT !.pc = "data",
                     !.header_mapping = Some(StdHeaderMap)]]
    /\ UNCHANGED <<mapperVars, call, codeVars, file_list, max_concurrency, shared_header_mapping,
                   semaphore, processed_results, main>>

\* the task's own get_header_mapping found no header (worker.py 276-288) or
\* raised (worker.py 359-372)
HeaderFailed(i, outcome) ==
    /\ tasks[i].pc = "header"
    /\ LET a == Alloc(heap)
           error == IF outcome = "empty" THEN NoHeadersError ELSE FetchError
       IN  /\ heap' = a.heap
           /\ tasks' = [tasks EXCEPT ![i] = [@ EXCEPT !.pc = "done", !.fault = "header",
                            !.result = Some(Failure(file_list[i], error, a.ref))]]
    /\ semaphore' = semaphore + 1
    /\ UNCHANGED <<errors_ref, missing_issues, call, codeVars, file_list, max_concurrency,
                   shared_header_mapping, processed_results, main>>

\* mutant: a failed data fetch leaves without releasing the slot
DataFailed_keeps_slot(i) ==
    /\ tasks[i].pc = "data"
    /\ LET a == Alloc(heap)
       IN  /\ heap' = a.heap
           /\ tasks' = [tasks EXCEPT ![i] = [@ EXCEPT !.pc = "done", !.fault = "data",
                            !.result = Some(Failure(file_list[i], FetchError, a.ref))]]
    /\ UNCHANGED <<errors_ref, missing_issues, call, codeVars, file_list, max_concurrency,
                   shared_header_mapping, semaphore, processed_results, main>>

\* get_sheet_data raised (worker.py 359-372)
DataFailed(i) ==
    /\ tasks[i].pc = "data"
    /\ LET a == Alloc(heap)
       IN  /\ heap' = a.heap
           /\ tasks' = [tasks EXCEPT ![i] = [@ EXCEPT !.pc = "done", !.fault = "data",
                            !.result = Some(Failure(file_list[i], FetchError, a.ref))]]
    /\ semaphore' = semaphore + 1
    /\ UNCHANGED <<errors_ref, missing_issues, call, codeVars, file_list, max_concurrency,
                   shared_header_mapping, processed_results, main>>

\* get_sheet_data returned no rows (worker.py 298-308)
DataEmpty(i) ==
    /\ tasks[i].pc = "data"
    /\ SheetData(file_list[i]) = <<>>
    /\ LET a == Alloc(heap)
       IN  /\ heap' = a.heap
           /\ tasks' = [tasks EXCEPT ![i] = [@ EXCEPT !.pc = "done",
                            !.result = Some(Result(file_list[i], TRUE, None, <<>>, <<>>, 0, a.ref))]]
    /\ semaphore' = semaphore + 1
    /\ UNCHANGED <<errors_ref, missing_issues, call, codeVars, file_list, max_concurrency,
                   shared_header_mapping, processed_results, main>>

\* mutant: the geocode error is not looked at
SheetResult_ignores_geocode_error(file_info, sheet_data, header_map, r) ==
    Result(file_info, TRUE, None, r.records,
           ExtractProductItemsFromRows(sheet_data, header_map),
           RowsProcessed(sheet_data, header_map), r.processing_errors)

\* the result process_sheet builds from what process_sheet_rows returned
\* (worker.py 318-357)
SheetResult(file_info, sheet_data, header_map, r) ==
    IF ~IsNone(r.error)
    THEN Result(file_info, FALSE, r.error, <<>>, <<>>, 0, r.processing_errors)
    ELSE Result(file_info, TRUE, None, r.records,
                ExtractProductItemsFromRows(sheet_data, header_map),
                RowsProcessed(sheet_data, header_map), r.processing_errors)

\* get_sheet_data returned rows: process_sheet_rows on the shared RowMapper,
\* the product items, the result (worker.py 310-357); nothing is awaited
DataProcessed(i) ==
    /\ tasks[i].pc = "data"
    /\ SheetData(file_list[i]) # <<>>
    /\ \E r \in {ProcessSheetRows(Self, SheetData(file_list[i]), Val(tasks[i].header_mapping),
                                   file_list[i].name)} :
          /\ heap' = r.self.heap
          /\ errors_ref' = r.self.errors_ref
          /\ missing_issues' = r.self.missing
          /\ tasks' = [tasks EXCEPT ![i] = [@ EXCEPT !.pc = "done",
                           !.returned = Some([records |-> r.records, error |-> r.error,
                                              processing_errors |-> r.processing_errors]),
                           !.result = Some(SheetResult(file_list[i], SheetData(file_list[i]),
                                                       Val(tasks[i].header_mapping), r))]]
    /\ semaphore' = semaphore + 1
    /\ UNCHANGED <<call, codeVars, file_list, max_concurrency, shared_header_mapping,
                   processed_results, main>>

\* mutant: the result of a task that raised is left out
RECURSIVE ProcessedResults_drops_raised(_, _, _, _)
ProcessedResults_drops_raised(files, results, h, i) ==
    IF i > Len(results) THEN [heap |-> h, results |-> <<>>]
    ELSE IF results[i].raised
         THEN ProcessedResults_drops_raised(files, results, h, i + 1)
    ELSE LET rest == ProcessedResults_drops_raised(files, results, h, i + 1)
         IN  [heap |-> rest.heap, results |-> <<Val(results[i].result)>> \o rest.results]

\* worker.py 436-452: the results in list order, an exception replaced by a
\* failure result of its file
RECURSIVE ProcessedResults(_, _, _, _)
ProcessedResults(files, results, h, i) ==
    IF i > Len(results) THEN [heap |-> h, results |-> <<>>]
    ELSE IF results[i].raised
         THEN LET a == Alloc(h)
                  rest == ProcessedResults(files, results, a.heap, i + 1)
              IN  [heap |-> rest.heap,
                   results |-> <<Failure(files[i], TaskError, a.ref)>> \o rest.results]
    ELSE LET rest == ProcessedResults(files, results, h, i + 1)
         IN  [heap |-> rest.heap, results |-> <<Val(results[i].result)>> \o rest.results]

\* asyncio.gather returned: every task is done
Gather ==
    /\ main = "gather"
    /\ \A i \in 1..Len(tasks) : tasks[i].pc = "done"
    /\ LET p == ProcessedResults(file_list, tasks, heap, 1)
       IN  /\ heap' = p.heap
           /\ processed_results' = Some(p.results)
    /\ main' = "done"
    /\ UNCHANGED <<errors_ref, missing_issues, call, codeVars, file_list, max_concurrency,
                   shared_header_mapping, semaphore, tasks>>

Next ==
    \/ ReturnEmpty
    \/ \E outcome \in {"ok", "empty", "raise"} : FirstHeader(outcome)
    \/ \E i \in 1..Len(tasks) : AcquireRaise(i)
    \/ \E i \in 1..Len(tasks) : AcquireFetchHeader(i)
    \/ \E i \in 1..Len(tasks) : AcquireNoHeaders(i)
    \/ \E i \in 1..Len(tasks) : AcquireFetchData(i)
    \/ \E i \in 1..Len(tasks) : HeaderFetched(i)
    \/ \E i \in 1..Len(tasks), outcome \in {"empty", "raise"} : HeaderFailed(i, outcome)
    \/ \E i \in 1..Len(tasks) : DataFailed(i)
    \/ \E i \in 1..Len(tasks) : DataEmpty(i)
    \/ \E i \in 1..Len(tasks) : DataProcessed(i)
    \/ Gather

Spec == Init /\ [][Next]_vars

-----------------------------------------------------------------------------
(* The files of Spec, each processed alone by a new RowMapper *)

AloneRun(file_info) ==
    Let(ProcessSheetRows(NewRowMapper, SheetData(file_info), StdHeaderMap, file_info.name),
        LAMBDA r : [records |-> r.records, error |-> r.error,
                    errors |-> r.self.heap[r.processing_errors]])
Alone == [f \in Files |-> AloneRun(f)]

Resolvable(file_info) == GetGeocodesForLocation(file_info.name) # <<>>

\* task i fetched a header mapping and data rows and met no failure of its
\* own: its rows went to process_sheet_rows
RowsReached(i) ==
    /\ tasks[i].pc = "done"
    /\ tasks[i].fault = "none"
    /\ ~IsNone(tasks[i].header_mapping)
    /\ SheetData(file_list[i]) # <<>>

Healthy(i) ==
    /\ tasks[i].fault = "none"
    /\ ~IsNone(tasks[i].header_mapping)
    /\ SheetData(file_list[i]) = <<>> \/ Resolvable(file_list[i])

\* the result of file_info processed alone
OwnResult(file_info, result) ==
    /\ result.success = TRUE
    /\ IsNone(result.error)
    /\ result.records = Alone[file_info].records
    /\ heap[result.processing_errors] = Alone[file_info].errors
    /\ result.product_items = ExtractProductItemsFromRows(SheetData(file_info), StdHeaderMap)
    /\ result.rows_processed = RowsProcessed(SheetData(file_info), StdHeaderMap)

\* C8: process_sheets_concurrently returns one result per input file, in input
\* order; a file with an unresolvable name, a failed fetch or a task that
\* raised has success = FALSE and no records; every other file's result is the
\* result of that file processed alone; and the run never stops short of
\* returning.
C8_OneResultPerFile ==
    /\ main \in {"start", "gather"} => ENABLED Next
    /\ main = "done" =>
          /\ Len(Val(processed_results)) = Len(file_list)
          /\ \A i \in 1..Len(file_list) :
                /\ Val(processed_results)[i].file_id = file_list[i].id
                /\ Val(processed_results)[i].file_name = file_list[i].name
                /\ ~Healthy(i) =>
                      /\ Val(processed_results)[i].success = FALSE
                      /\ Val(processed_results)[i].records = <<>>
                /\ Healthy(i) => OwnResult(file_list[i], Val(processed_results)[i])

\* C8 witness: the task of the first file raised, the second file has its own
\* records
C8_Witness ==
    /\ main = "done"
    /\ Len(file_list) = 2
    /\ tasks[1].raised
    /\ Val(processed_results)[1].success = FALSE
    /\ Val(processed_results)[1].file_name = file_list[1].name
    /\ Healthy(2)
    /\ Val(processed_results)[2].records # <<>>

\* C9: in every state of every interleaving, the error list process_sheet_rows
\* returned for a file holds exactly the errors of that file processed alone,
\* every entry under the file's name; no two files share a list; the lists of
\* the final results are the same.
C9_ErrorListsPerFile ==
    /\ \A i \in 1..Len(tasks) :
          ~IsNone(tasks[i].returned) =>
              /\ heap[Val(tasks[i].returned).processing_errors] = Alone[file_list[i]].errors
              /\ \A k \in 1..Len(heap[Val(tasks[i].returned).processing_errors]) :
                    heap[Val(tasks[i].returned).processing_errors][k].file_name = file_list[i].name
              /\ \A j \in 1..Len(tasks) :
                    (j # i /\ ~IsNone(tasks[j].result)) =>
                        Val(tasks[j].result).processing_errors
                            # Val(tasks[i].returned).processing_errors
              /\ main = "done" =>
                    Val(processed_results)[i].processing_errors
                        = Val(tasks[i].returned).processing_errors

\* C9 witness: two files with errors of their own, the second processed before
\* the first; each list holds its file's errors
C9_Witness ==
    /\ main = "done"
    /\ file_list = <<F_CO, F_CHI>>
    /\ ~IsNone(tasks[1].returned) /\ ~IsNone(tasks[2].returned)
    /\ Val(tasks[2].returned).processing_errors < Val(tasks[1].returned).processing_errors
    /\ Len(heap[Val(processed_results)[1].processing_errors]) >= 2
    /\ Len(heap[Val(processed_results)[2].processing_errors]) >= 2
    /\ heap[Val(processed_results)[1].processing_errors]
           # heap[Val(processed_results)[2].processing_errors]

-----------------------------------------------------------------------------
(* ProductCodeMapper (product_code_mapper.py): research id -> item code.    *)
(* A mapper object is [mapping, unmapped_ids].                              *)

\* while parts and parts[-1] == '0': parts.pop()
RECURSIVE PopZeros(_)
PopZeros(parts) ==
    IF parts # <<>> /\ parts[Len(parts)] = ZERO
    THEN PopZeros(SubSeq(parts, 1, Len(parts) - 1)) ELSE parts

\* mutant: every zero segment is removed, interior ones too
NormalizeResearchId_drops_every_zero(research_id) ==
    IF research_id = <<>> THEN <<>>
    ELSE LET parts == SelectSeq(Split(Strip(research_id), "."), LAMBDA part : part # ZERO)
         IN  IF parts = <<>> THEN Strip(research_id) ELSE Join(parts, DOT)

\* ProductCodeMapper._normalize_research_id
NormalizeResearchId(research_id) ==
    IF research_id = <<>> THEN <<>>
    ELSE LET parts == PopZeros(Split(Strip(research_id), "."))
         IN  IF parts = <<>> THEN Strip(research_id) ELSE Join(parts, DOT)

PadWidth == 3

\* mutant: a long code is cut to the first three characters
PadItemCode_truncates(item_code) ==
    IF item_code = <<>> THEN <<"0", "0", "0">>
    ELSE LET code == Strip(item_code)
         IN  IF Len(code) > PadWidth THEN SubSeq(code, 1, PadWidth) ELSE ZFill(code, PadWidth)

\* ProductCodeMapper._pad_item_code
PadItemCode(item_code) ==
    IF item_code = <<>> THEN <<"0", "0", "0">>
    ELSE LET code == Strip(item_code)
         IN  IF Len(code) > PadWidth THEN code ELSE ZFill(code, PadWidth)

\* s.strip('"')
RECURSIVE StripQuotes(_)
StripQuotes(s) ==
    IF s # <<>> /\ Head(s) = "\"" THEN StripQuotes(Tail(s))
    ELSE IF s # <<>> /\ s[Len(s)] = "\"" THEN StripQuotes(SubSeq(s, 1, Len(s) - 1))
    ELSE s

ResearchIdCol == 0
ItemCol == 4

\* ProductCodeMapper.load_mapping, the loop over the rows after the header:
\* a row with fewer than 5 columns or an empty id or code is skipped, a later
\* row of the same normalized id replaces the earlier one
RECURSIVE LoadRows(_, _)
LoadRows(m, rows) ==
    IF rows = <<>> THEN m
    ELSE LET row == Head(rows)
             research_id == StripQuotes(Strip(row[ResearchIdCol + 1]))
             item_code == StripQuotes(Strip(row[ItemCol + 1]))
         IN  IF Len(row) < ItemCol + 1 THEN LoadRows(m, Tail(rows))
             ELSE IF research_id = <<>> \/ item_code = <<>> THEN LoadRows(m, Tail(rows))
             ELSE LoadRows((NormalizeResearchId(research_id) :> PadItemCode(item_code)) @@ m,
                           Tail(rows))

\* mutant: the normalized id is tracked instead of the original one
ConvertResearchId_tracks_normalized(self, research_id) ==
    IF IsNone(research_id)
    THEN [mapping |-> self.mapping, unmapped_ids |-> self.unmapped_ids, result |-> None]
    ELSE LET normalized_id == NormalizeResearchId(Val(research_id))
         IN  IF normalized_id \in DOMAIN self.mapping
             THEN [mapping |-> self.mapping, unmapped_ids |-> self.unmapped_ids,
                   result |-> Some(self.mapping[normalized_id])]
             ELSE [mapping |-> self.mapping,
                   unmapped_ids |-> self.unmapped_ids \cup {normalized_id}, result |-> None]

\* mutant: the id is looked up as it was given
ConvertResearchId_exact_lookup(self, research_id) ==
    IF IsNone(research_id) \/ Val(research_id) \in DOMAIN self.mapping
    THEN [mapping |-> self.mapping, unmapped_ids |-> self.unmapped_ids,
          result |-> IF IsNone(research_id) THEN None ELSE Some(self.mapping[Val(research_id)])]
    ELSE [mapping |-> self.mapping, unmapped_ids |-> self.unmapped_ids \cup {Val(research_id)},
          result |-> None]

\* ProductCodeMapper.convert_research_id on Optional text:
\* [mapping, unmapped_ids, result]
ConvertResearchId(self, research_id) ==
    IF IsNone(research_id)
    THEN [mapping |-> self.mapping, unmapped_ids |-> self.unmapped_ids, result |-> None]
    ELSE IF Val(research_id) = <<>>
    THEN [mapping |-> self.mapping, unmapped_ids |-> self.unmapped_ids \cup {<<>>},
          result |-> None]
    ELSE LET normalized_id == NormalizeResearchId(Val(research_id))
         IN  IF normalized_id \in DOMAIN self.mapping /\ self.mapping[normalized_id] # <<>>
             THEN [mapping |-> self.mapping, unmapped_ids |-> self.unmapped_ids,
                   result |-> Some(self.mapping[normalized_id])]
             ELSE [mapping |-> self.mapping,
                   unmapped_ids |-> self.unmapped_ids \cup {Val(research_id)},
                   result |-> None]

\* mutant: a record whose id has no code is kept with its id
RECURSIVE FilterAndConvertRecordResearchIds_keeps_unmapped(_, _)
FilterAndConvertRecordResearchIds_keeps_unmapped(self, records) ==
    IF records = <<>> THEN [self |-> self, filtered_records |-> <<>>]
    ELSE Let(ConvertResearchId(self, Some(Head(records).item)), LAMBDA converted :
         Let(FilterAndConvertRecordResearchIds_keeps_unmapped(
                 [mapping |-> converted.mapping, unmapped_ids |-> converted.unmapped_ids],
                 Tail(records)), LAMBDA rest :
             [self |-> rest.self,
              filtered_records |->
                  (IF ~IsNone(converted.result)
                   THEN <<[Head(records) EXCEPT !.item = Val(converted.result)]>>
                   ELSE <<Head(records)>>) \o rest.filtered_records]))

\* ResearchDataOrchestrator._filter_and_convert_record_research_ids, on the
\* product code mapper self: [self, filtered_records]
RECURSIVE FilterAndConvertRecordResearchIds(_, _)
FilterAndConvertRecordResearchIds(self, records) ==
    IF records = <<>> THEN [self |-> self, filtered_records |-> <<>>]
    ELSE Let(ConvertResearchId(self, Some(Head(records).item)), LAMBDA converted :
         Let(FilterAndConvertRecordResearchIds(
                 [mapping |-> converted.mapping, unmapped_ids |-> converted.unmapped_ids],
                 Tail(records)), LAMBDA rest :
             [self |-> rest.self,
              filtered_records |->
                  (IF ~IsNone(converted.result) /\ Val(converted.result) # <<>>
                   THEN <<[Head(records) EXCEPT !.item = Val(converted.result)]>>
                   ELSE <<>>) \o rest.filtered_records]))

\* the characters of the modelled texts in the order of their code points
CodePoints ==
    <<"\t", "\n", " ", "\"", "%", "+", "-", ".">> \o Digits \o UpperCase \o LowerCase \o <<"|">>
CodePoint(c) == CHOOSE i \in 1..Len(CodePoints) : CodePoints[i] = c

\* str.__lt__: the order sorted() uses
RECURSIVE TextLess(_, _)
TextLess(a, b) ==
    IF b = <<>> THEN FALSE
    ELSE IF a = <<>> THEN TRUE
    ELSE IF Head(a) # Head(b) THEN CodePoint(Head(a)) < CodePoint(Head(b))
    ELSE TextLess(Tail(a), Tail(b))

\* sorted(list(a_set))
RECURSIVE SortedList(_)
SortedList(set) ==
    IF set = {} THEN <<>>
    ELSE LET least == CHOOSE x \in set : \A y \in set \ {x} : TextLess(x, y)
         IN  <<least>> \o SortedList(set \ {least})

\* ProductCodeMapper.get_unmapped_ids
GetUnmappedIds(self) == SortedList(self.unmapped_ids)

\* ProductItem.__eq__ on two product items
ProductItemEq(self, other) == self.item = other.item

\* mutant: the last item of a code is kept, at the place of the first
RECURSIVE DedupFrom_keeps_last(_, _)
DedupFrom_keeps_last(product_items, seen_items) ==
    IF product_items = <<>> THEN <<>>
    ELSE IF Head(product_items).item \notin seen_items
         THEN LET same == SelectSeq(product_items,
                                    LAMBDA x : x.item = Head(product_items).item)
              IN  <<same[Len(same)]>>
                      \o DedupFrom_keeps_last(Tail(product_items),
                                              seen_items \cup {Head(product_items).item})
    ELSE DedupFrom_keeps_last(Tail(product_items), seen_items)

\* the loop of _deduplicate_product_items with seen_items as it stands
RECURSIVE DedupFrom(_, _)
DedupFrom(product_items, seen_items) ==
    IF product_items = <<>> THEN <<>>
    ELSE IF Head(product_items).item \notin seen_items
         THEN <<Head(product_items)>>
                  \o DedupFrom(Tail(product_items), seen_items \cup {Head(product_items).item})
    ELSE DedupFrom(Tail(product_items), seen_items)

\* ResearchDataOrchestrator._deduplicate_product_items
DeduplicateProductItems(product_items) == DedupFrom(product_items, {})

\* name in text: the text has name as a run of consecutive characters
IsSubstring(name, text) ==
    \E i \in 0..(Len(text) - Len(name)) : SubSeq(text, i + 1, i + Len(name)) = name

\* LookupTables.get_state_name_to_code_map: some of its entries, in the
\* order of the dict
ARKANSAS == <<"A","R","K","A","N","S","A","S">>
KANSAS == <<"K","A","N","S","A","S">>
VIRGINIA == <<"V","I","R","G","I","N","I","A">>
WEST_VIRGINIA == <<"W","E","S","T"," ","V","I","R","G","I","N","I","A">>
state_name_to_code ==
    << <<ARKANSAS, "AR">>, <<KANSAS, "KS">>, <<VIRGINIA, "VA">>, <<WEST_VIRGINIA, "WV">> >>

\* LookupTables.geocode_lookup: state code -> geocode; no entry for KS
GEO_AR == <<"U","S","0","5","0","0","0","0","0","0","0","0">>
GEO_VA == <<"U","S","5","1","0","0","0","0","0","0","0","0">>
GEO_WV == <<"U","S","5","4","0","0","0","0","0","0","0","0">>
geocode_lookup == [state_code \in {"AR", "VA", "WV"} |->
                      CASE state_code = "AR" -> GEO_AR
                        [] state_code = "VA" -> GEO_VA
                        [] state_code = "WV" -> GEO_WV]

\* sorted(items, key=len of the name, reverse=True): a stable sort, items
\* of one length stay in their order
RECURSIVE SortedStates(_)
SortedStates(items) ==
    IF items = <<>> THEN <<>>
    ELSE LET longest == CHOOSE i \in 1..Len(items) :
                            /\ \A j \in 1..Len(items) : Len(items[j][1]) <= Len(items[i][1])
                            /\ \A j \in 1..(i - 1) : Len(items[j][1]) < Len(items[i][1])
         IN  <<items[longest]>>
                 \o SortedStates(SubSeq(items, 1, longest - 1)
                                    \o SubSeq(items, longest + 1, Len(items)))

\* mutant: the names are tried in the order of the dict
GetGeocodeForFilename_dict_order(filename) ==
    LET filename_upper == Upper(filename)
        hits == SelectSeq(state_name_to_code, LAMBDA item : IsSubstring(item[1], filename_upper))
    IN  IF hits = <<>> THEN None
        ELSE IF hits[1][2] \in DOMAIN geocode_lookup THEN Some(geocode_lookup[hits[1][2]])
        ELSE None

\* LookupTables.get_geocode_for_filename
GetGeocodeForFilename(filename) ==
    LET filename_upper == Upper(filename)
        sorted_states == SortedStates(state_name_to_code)
        hits == SelectSeq(sorted_states, LAMBDA item : IsSubstring(item[1], filename_upper))
    IN  IF hits = <<>> THEN None
        ELSE IF hits[1][2] \in DOMAIN geocode_lookup THEN Some(geocode_lookup[hits[1][2]])
        ELSE None

\* LookupTables._load_geocode_csv, the rows after the header: every row with
\* a geocode and a state code sets the entry of its state code
RECURSIVE LoadGeocodeRows(_, _)
LoadGeocodeRows(lookup_dict, rows) ==
    IF rows = <<>> THEN lookup_dict
    ELSE LET row == Head(rows)
             geocode == StripQuotes(Strip(row[1]))
             state_code == StripQuotes(Strip(row[2]))
         IN  IF Len(row) >= 2 /\ geocode # <<>> /\ state_code # <<>>
             THEN LoadGeocodeRows((state_code :> geocode) @@ lookup_dict, Tail(rows))
             ELSE LoadGeocodeRows(lookup_dict, Tail(rows))

-----------------------------------------------------------------------------
(* SpecCall: one call of a function of the pipeline on a drawn argument *)

RID_DEEP == <<"1",".","1",".","4",".","3",".","0",".","0",".","0">>
RID_INTERIOR == <<"1",".","0",".","2",".","0">>
RID_PLAIN == <<"1",".","2",".","3">>
RID_ZEROS == <<"0",".","0",".","0",".","0">>
RID_ONE == <<"1">>
RID_ZERO == <<"0">>
RID_TEN == <<"1","0",".","0">>
RID_DOUBLE == <<"1",".","0","0">>
RID_PADDED == <<" ","1",".","2",".","0"," ">>
RID_LEADING == <<"0",".","1",".","0">>
RID_BLANK == <<" "," "," ">>

ResearchIds ==
    {<<>>, RID_DEEP, RID_INTERIOR, RID_PLAIN, RID_ZEROS, RID_ONE, RID_ZERO, RID_TEN, RID_DOUBLE,
     RID_PADDED, RID_LEADING, RID_BLANK}

NewCall(op, arg) == [pc |-> "start", op |-> op, arg |-> arg, result |-> None]

\* product items after conversion: two codes, each under several descriptions
CODE_005 == <<"0","0","5">>
CODE_022 == <<"0","2","2">>
DESC_FOOD == <<"F","o","o","d">>
DESC_CANDY == <<"F","o","o","d"," ","|"," ","C","a","n","d","y">>
ItemPool ==
    {ProductItem(CODE_005, DESC_FOOD), ProductItem(CODE_005, DESC_CANDY),
     ProductItem(CODE_022, DESC_FOOD), ProductItem(CODE_022, DESC_CANDY)}
MaxItems == 3
ItemLists == UNION {[1..n -> ItemPool] : n \in 0..MaxItems}

\* catalog rows: the id in column B, description cells from column C on
DID_ROOT == <<"1",".","0",".","0",".","0",".","0",".","0",".","0",".","0">>
DID_MID == <<"1",".","1",".","0",".","0",".","0",".","0",".","0",".","0">>
DID_LEAF == <<"1",".","1",".","2",".","0",".","0",".","0",".","0",".","0">>
DID_OTHER == <<"2",".","0",".","0",".","0",".","0",".","0",".","0",".","0">>
DescRow(id, c, d) == << <<>>, id, c, d >>
DescRowPool ==
    {DescRow(DID_ROOT, <<"F","o","o","d">>, <<>>),
     DescRow(DID_ROOT, <<" ">>, <<"G","o","o","d","s"," ">>),
     DescRow(DID_MID, <<" ">>, <<>>),
     DescRow(DID_LEAF, <<"C","a","n">>, <<" ","d","y">>),
     DescRow(RID_ONE, <<"S","h","o","r","t">>, <<>>)}
MaxDescRows == 3
DescSheets == UNION {[1..n -> DescRowPool] : n \in 0..MaxDescRows}
DescTargets == {DID_ROOT, DID_MID, DID_LEAF, DID_OTHER, RID_INTERIOR, RID_LEADING}
DescHeaderMap == [current_id |-> Some(1)]

RID_EXAMPLE == <<"1",".","1",".","1",".","4",".","3",".","0",".","0",".","0">>
RID_FULL == <<"1",".","2",".","3",".","4",".","5",".","6",".","7",".","8">>
RID_GAP == <<"1",".","0",".","0",".","4",".","0",".","0",".","0",".","5">>
RID_LEADING_FULL == <<"0",".","0",".","3",".","0",".","0",".","0",".","0",".","0">>
ParentTargets ==
    {RID_EXAMPLE, RID_FULL, RID_GAP, RID_LEADING_FULL, RID_LEADING, RID_DEEP, RID_INTERIOR,
     RID_PLAIN, RID_ONE, RID_ZERO, RID_ZEROS, DID_ROOT, DID_MID, DID_LEAF, DID_OTHER, <<>>}

FN_WEST_VIRGINIA == <<"W","e","s","t"," ","V","i","r","g","i","n","i","a"," ","S","a","l","e","s"," ","T","a","x">>
FN_VIRGINIA == <<"v","i","r","g","i","n","i","a"," ","r","e","s","e","a","r","c","h">>
FN_ARKANSAS == <<"A","r","k","a","n","s","a","s"," ","T","a","x">>
FN_KANSAS == <<"K","a","n","s","a","s"," ","T","a","x">>
FN_TWO == <<"K","a","n","s","a","s"," ","a","n","d"," ","W","e","s","t"," ","V","i","r","g","i","n","i","a">>
FN_TIE == <<"V","i","r","g","i","n","i","a"," ","A","r","k","a","n","s","a","s">>
FN_NONE == <<"O","h","i","o"," ","T","a","x">>
GeocodeFilenames ==
    {FN_WEST_VIRGINIA, FN_VIRGINIA, FN_ARKANSAS, FN_KANSAS, FN_TWO, FN_TIE, FN_NONE, <<>>}

\* rows of geo_state.csv: geocode, state, county, city, tax_district,
\* jurisdiction
STATE_IL == <<"I","L">>
STATE_CO == <<"C","O">>
GeoRow(geocode, state, city, jurisdiction) == <<geocode, state, city, city, <<>>, jurisdiction>>
GeoRowPool ==
    {GeoRow(IL_STATE, STATE_IL, <<>>, <<"S","T","A","T","E">>),
     GeoRow(CHICAGO_A, STATE_IL, <<"C","H","I","C","A","G","O">>, <<"C","I","T","Y">>),
     GeoRow(CO_STATE, STATE_CO, <<>>, <<"S","T","A","T","E">>),
     GeoRow(BOULDER, <<" ","C","O"," ">>, <<"B","O","U","L","D","E","R">>, <<"C","I","T","Y">>),
     GeoRow(CHICAGO_B, <<>>, <<"C","H","I","C","A","G","O">>, <<"C","I","T","Y">>),
     <<IL_STATE>>}
MaxGeoRows == 3
GeoTables == UNION {[1..n -> GeoRowPool] : n \in 0..MaxGeoRows}

\* the drawn call: an operation and its argument
CallInputs ==
    \/ \E rows \in GeoTables : call = NewCall("load_geocodes", rows)
    \/ \E filename \in GeocodeFilenames : call = NewCall("geocode", filename)
    \/ \E item_id \in ParentTargets : call = NewCall("parents", item_id)
    \/ \E sheet_data \in DescSheets, item_id \in DescTargets :
          call = NewCall("describe", [sheet_data |-> sheet_data, item_id |-> item_id])
    \/ \E id \in ResearchIds : call = NewCall("normalize", id)
    \/ \E pair \in ItemPool \X ItemPool : call = NewCall("equal", pair)
    \/ \E product_items \in ItemLists : call = NewCall("deduplicate", product_items)

CallInit ==
    /\ FreshMapper
    /\ NewProductCodeMapper
    /\ NoRun
    /\ CallInputs

Return(op, result) ==
    /\ call.pc = "start"
    /\ call.op = op
    /\ call' = [call EXCEPT !.pc = "done", !.result = result]
    /\ UNCHANGED <<mapperVars, runVars, codeVars>>

NormalizeCall == Return("normalize", NormalizeResearchId(call.arg))

EqualCall == Return("equal", ProductItemEq(call.arg[1], call.arg[2]))

DeduplicateCall == Return("deduplicate", DeduplicateProductItems(call.arg))

\* the description of one id over the lookup built from the sheet
\* (worker.py 190, 222)
DescribeCall ==
    Return("describe",
           BuildHierarchicalDescription(call.arg.item_id,
               BuildDescriptionLookup(call.arg.sheet_data, DescHeaderMap, <<>>)))

ParentsCall == Return("parents", ParseHierarchicalId(call.arg))

GeocodeCall == Return("geocode", GetGeocodeForFilename(call.arg))

LoadGeocodesCall == Return("load_geocodes", LoadGeocodeRows(<<>>, call.arg))

CallNext ==
    \/ NormalizeCall
    \/ LoadGeocodesCall
    \/ GeocodeCall
    \/ ParentsCall
    \/ DescribeCall
    \/ EqualCall
    \/ DeduplicateCall

SpecCall == CallInit /\ [][CallNext]_vars

CallDone(op) == call.pc = "done" /\ call.op = op

\* the number of segments at the end of segs that are "0"
TrailingZeros(segs) ==
    CHOOSE k \in 0..Len(segs) :
        /\ \A i \in (Len(segs) - k + 1)..Len(segs) : segs[i] = ZERO
        /\ k < Len(segs) => segs[Len(segs) - k] # ZERO

\* C11: for an id written without surrounding whitespace, normalize returns
\* the id without its trailing "0" segments and with every other segment in
\* place (interior zeros too); an id without trailing zero segments is returned
\* unchanged; an id whose segments are all "0" is returned as it was given.
\* Surrounding whitespace is removed before the segments are read.
C11_NormalizeTrailingZeros ==
    CallDone("normalize") =>
        LET id == Strip(call.arg)
            segs == Split(id, ".")
            k == TrailingZeros(segs)
        IN  /\ k = Len(segs) => call.result = id
            /\ k < Len(segs) => Split(call.result, ".") = SubSeq(segs, 1, Len(segs) - k)
            /\ k = 0 => call.result = id
            /\ (id = call.arg /\ k = 0) => call.result = call.arg
            /\ (id = call.arg /\ k = Len(segs)) => call.result = call.arg

\* C11 witness: 1.0.2.0 gives 1.0.2, the interior zero kept
C11_Witness ==
    /\ CallDone("normalize")
    /\ call.arg = RID_INTERIOR
    /\ call.result = <<"1", ".", "0", ".", "2">>

\* C11 second witness: 0.0.0.0 is returned as given
C11_WitnessAllZeros ==
    /\ CallDone("normalize")
    /\ call.arg = RID_ZEROS
    /\ call.result = RID_ZEROS

\* the first position of an item with the given code
FirstOf(product_items, code) ==
    CHOOSE i \in 1..Len(product_items) :
        /\ product_items[i].item = code
        /\ \A j \in 1..(i - 1) : product_items[j].item # code

\* C16: two product items are equal exactly when their item codes are the
\* same; the deduplicated list has no two items with the same code, has every
\* code of the input, holds for each code the first input item of that code
\* (with its description), in the order of those first occurrences, and is
\* left unchanged by a second deduplication.
C16_Deduplication ==
    /\ CallDone("equal") => (call.result <=> call.arg[1].item = call.arg[2].item)
    /\ CallDone("deduplicate") =>
          LET input == call.arg
              output == call.result
          IN  /\ \A i, j \in 1..Len(output) : output[i].item = output[j].item => i = j
              /\ {input[i].item : i \in 1..Len(input)} = {output[i].item : i \in 1..Len(output)}
              /\ \A k \in 1..Len(output) : output[k] = input[FirstOf(input, output[k].item)]
              /\ \A k, n \in 1..Len(output) :
                    k < n => FirstOf(input, output[k].item) < FirstOf(input, output[n].item)
              /\ DeduplicateProductItems(output) = output

\* C16 witness: of three items the first and the third have the same code
\* and different descriptions; the first one stays
C16_Witness ==
    /\ CallDone("deduplicate")
    /\ call.arg = <<ProductItem(CODE_005, DESC_CANDY), ProductItem(CODE_022, DESC_FOOD),
                    ProductItem(CODE_005, DESC_FOOD)>>
    /\ call.result = <<ProductItem(CODE_005, DESC_CANDY), ProductItem(CODE_022, DESC_FOOD)>>

\* C16 second witness: two items of one code and different descriptions
\* compare equal
C16_WitnessEqual ==
    /\ CallDone("equal")
    /\ call.arg = <<ProductItem(CODE_005, DESC_FOOD), ProductItem(CODE_005, DESC_CANDY)>>
    /\ call.result = TRUE

\* the concatenated text of the last row of the sheet whose id is x; empty
\* when there is no such row
RowText(sheet_data, x) ==
    LET rows == {i \in 1..Len(sheet_data) : Strip(sheet_data[i][2]) = x}
        last == CHOOSE i \in rows : \A j \in rows : j <= i
        row == sheet_data[last]
    IN  IF rows = {} THEN <<>> ELSE Strip(Strip(row[3]) \o Strip(row[4]))

\* text(x) of the composition: the row's text, a single space without it
TextOf(sheet_data, x) ==
    IF RowText(sheet_data, x) # <<>> THEN RowText(sheet_data, x) ELSE SPACE

\* the number of "|" characters in s
Bars(s) == Cardinality({i \in 1..Len(s) : s[i] = "|"})

\* C17: the composed description of an id with parent chain p1..pk is
\* text(p1), ..., text(pk), text(id) joined by " | ", where text(x) is the
\* concatenated text of x's row when that is not empty and one space when x
\* has no row or its row has no text; it has k+1 components (k separators)
\* whether or not the ancestors have rows.
C17_DescriptionComposition ==
    CallDone("describe") =>
        LET sheet_data == call.arg.sheet_data
            chain == ParseHierarchicalId(call.arg.item_id) \o <<call.arg.item_id>>
        IN  /\ call.result = Join([i \in 1..Len(chain) |-> TextOf(sheet_data, chain[i])], BAR)
            /\ Bars(call.result) = Len(chain) - 1

\* C17 witness: the leaf has a row, its first ancestor has none and its second
\* one has a row without text
C17_Witness ==
    /\ CallDone("describe")
    /\ call.arg.item_id = DID_LEAF
    /\ call.arg.sheet_data = <<DescRow(DID_MID, <<" ">>, <<>>),
                               DescRow(DID_LEAF, <<"C","a","n">>, <<" ","d","y">>)>>
    /\ call.result = <<" "," ","|"," "," "," ","|"," ","C","a","n","d","y">>

\* C17 second witness: every id of the chain has a row with text
C17_WitnessFull ==
    /\ CallDone("describe")
    /\ call.arg.item_id = DID_MID
    /\ call.result = <<"F","o","o","d"," ","|"," "," ">>

\* the segments of an id, filled with "0" up to IdParts segments
Segments(item_id) ==
    LET split == Split(item_id, ".")
    IN  split \o [i \in 1..(IdParts - Len(split)) |-> ZERO]

\* the id that keeps the first n segments of segs and has "0" in the others
CutAt(segs, n) == Join([i \in 1..IdParts |-> IF i <= n THEN segs[i] ELSE ZERO], DOT)

\* the cut ids at the cut points that satisfy Takes, shallowest first
Cuts(segs, Takes(_)) ==
    LET points == SelectSeq([n \in 1..IdParts |-> n], Takes)
    IN  [k \in 1..Len(points) |-> CutAt(segs, points[k])]

\* C18 as stated: the parents are the cuts at the cut points whose last kept
\* segment is not "0", shallowest first, the id itself left out.  Violated by
\* an id that begins with a zero segment: 0.1.0 has the parent
\* 0.0.0.0.0.0.0.0, the cut after its first segment.
C18_Original ==
    CallDone("parents") =>
        LET segs == Segments(call.arg)
        IN  call.result =
                Cuts(segs, LAMBDA n : segs[n] # ZERO /\ CutAt(segs, n) # CutAt(segs, IdParts))

\* C18: for an id of at most 8 segments the parents are the cuts at the cut
\* points whose next segment (the first one that the cut sets to zero) is not
\* "0", shallowest first; each parent keeps a leading run of the id's
\* segments and has "0" in all others, and the id itself is never among them.
C18_ParentChain ==
    CallDone("parents") =>
        LET segs == Segments(call.arg)
        IN  /\ call.result = Cuts(segs, LAMBDA n : n < IdParts /\ segs[n + 1] # ZERO)
            /\ \A k \in 1..Len(call.result) :
                  /\ call.result[k] # call.arg
                  /\ call.result[k] # CutAt(segs, IdParts)
                  /\ \E n \in 1..(IdParts - 1) : call.result[k] = CutAt(segs, n)

\* C18 witness: the four parents of 1.1.1.4.3.0.0.0
C18_Witness ==
    /\ CallDone("parents")
    /\ call.arg = RID_EXAMPLE
    /\ call.result = <<DID_ROOT, DID_MID,
                       <<"1",".","1",".","1",".","0",".","0",".","0",".","0",".","0">>,
                       <<"1",".","1",".","1",".","4",".","0",".","0",".","0",".","0">>>>

\* C18 second witness: an id with zero segments between non-zero ones has
\* one parent for each non-zero segment after the first
C18_WitnessGap ==
    /\ CallDone("parents")
    /\ call.arg = RID_GAP
    /\ call.result = <<DID_ROOT,
                       <<"1",".","0",".","0",".","4",".","0",".","0",".","0",".","0">>>>

\* the known names that the file name contains, case ignored
Matching(filename) ==
    {i \in 1..Len(state_name_to_code) : IsSubstring(state_name_to_code[i][1], Upper(filename))}

\* the geocode of the i-th known name, None when its state has none
GeocodeOfName(i) ==
    IF state_name_to_code[i][2] \in DOMAIN geocode_lookup
    THEN Some(geocode_lookup[state_name_to_code[i][2]]) ELSE None

\* C19: when a file name contains known names, the result is the geocode of
\* a matching name that no other matching name exceeds in length; a matching
\* name shorter than another matching name (as a name contained in a longer
\* matching one is) never gives the result; without a matching name there
\* is no result.
C19_LongestNameDecides ==
    CallDone("geocode") =>
        LET matching == Matching(call.arg)
            Name(i) == state_name_to_code[i][1]
        IN  /\ matching = {} => call.result = None
            /\ matching # {} =>
                  \E i \in matching :
                      /\ \A j \in matching : Len(Name(j)) <= Len(Name(i))
                      /\ call.result = GeocodeOfName(i)
            /\ \A i, j \in matching :
                  (IsSubstring(Name(i), Name(j)) /\ i # j) => call.result # GeocodeOfName(i)

\* C19 witness: a file named for West Virginia, which also contains
\* Virginia, resolves to West Virginia's geocode
C19_Witness ==
    /\ CallDone("geocode")
    /\ call.arg = FN_WEST_VIRGINIA
    /\ Cardinality(Matching(call.arg)) = 2
    /\ call.result = Some(GEO_WV)

\* C19 second witness: Kansas, contained in Arkansas, does not decide
C19_WitnessArkansas ==
    /\ CallDone("geocode")
    /\ call.arg = FN_ARKANSAS
    /\ Cardinality(Matching(call.arg)) = 2
    /\ call.result = Some(GEO_AR)

-----------------------------------------------------------------------------
(* SpecCode: a ProductCodeMapper is constructed, loads its mapping file and *)
(* converts ids.  call.log is the history of the convert calls: the pairs   *)
(* <<argument, returned value>>.                                            *)

RID_12 == <<"1",".","2">>
RID_12_0 == <<"1",".","2",".","0">>
RID_12_00 == <<"1",".","2",".","0",".","0">>
RID_102 == <<"1",".","0",".","2">>
RID_9 == <<"9">>
RID_00 == <<"0",".","0">>
RID_000 == <<"0",".","0",".","0">>
RAW_5 == <<"5">>
RAW_22 == <<" ","2","2"," ">>
RAW_1234 == <<"1","2","3","4">>
RAW_QUOTED == <<"\"","7","\"">>
RAW_SIGNED == <<"-","5">>
RAW_123 == <<"1","2","3">>

\* a row of mapping/product_code_mapping.csv: research_id, taxonomy_id,
\* product_id, group, item, description
MappingRow(research_id, item) == <<research_id, <<>>, <<>>, GROUP_DEFAULT, item, <<>>>>

\* the rows after the header of the mapping files drawn
MappingFiles ==
    { <<>>,
      <<MappingRow(RID_12_00, RAW_5), MappingRow(RID_102, RAW_22), MappingRow(RID_00, RAW_QUOTED)>>,
      <<MappingRow(RID_12, RAW_123), MappingRow(RID_12_0, RAW_1234), <<RID_9, RAW_5>>,
        MappingRow(RID_102, RAW_22), MappingRow(RID_102, <<>>)>>,
      <<MappingRow(RID_000, RAW_SIGNED), MappingRow(RID_9, RAW_22), MappingRow(<<>>, RAW_5)>> }

ConvertIds ==
    {None, Some(<<>>), Some(RID_12), Some(RID_12_0), Some(RID_12_00), Some(RID_102), Some(RID_9),
     Some(RID_00), Some(RID_000)}

CodeInit ==
    /\ FreshMapper
    /\ NewProductCodeMapper
    /\ NoRun
    /\ call = [pc |-> "new", rows |-> <<>>, log |-> {}, unmapped |-> None, records |-> None,
               filtered |-> None]

\* ProductCodeMapper.load_mapping: the rows of the file, or no mapping at all
\* when the file cannot be read (product_code_mapper.py 140-143)
LoadMapping(rows, outcome) ==
    /\ call.pc = "new"
    /\ mapping' = IF outcome = "ok" THEN LoadRows(mapping, rows) ELSE <<>>
    /\ call' = [call EXCEPT !.pc = "loaded", !.rows = IF outcome = "ok" THEN rows ELSE <<>>]
    /\ UNCHANGED <<mapperVars, runVars, unmapped_ids>>

\* one call of convert_research_id
Convert(research_id) ==
    /\ call.pc = "loaded"
    /\ \E r \in {ConvertResearchId([mapping |-> mapping, unmapped_ids |-> unmapped_ids],
                                     research_id)} :
          /\ mapping' = r.mapping
          /\ unmapped_ids' = r.unmapped_ids
          /\ call' = [call EXCEPT !.log = @ \cup {<<research_id, r.result>>}, !.unmapped = None,
                                  !.records = None, !.filtered = None]
    /\ UNCHANGED <<mapperVars, runVars>>

\* the records given to the filter
REC_A == Record(CO_STATE, RID_12_0, CUSTOMER_PERSONAL, TAXABLE, T01, T01, <<"1", ".", "0">>)
REC_B == Record(BOULDER, RID_9, CUSTOMER_BUSINESS, NOT_TAXABLE, T04, T02, <<"0", ".", "5">>)
REC_C == Record(CHICAGO_A, RID_102, CUSTOMER_PERSONAL, TAXABLE, T47, OTHER_CAT, <<"1", ".", "0">>)
REC_D == Record(CO_STATE, RID_000, CUSTOMER_BUSINESS, TAXABLE, T01, T01, <<"1", ".", "0">>)
RecordLists ==
    {<<>>, <<REC_A>>, <<REC_B>>, <<REC_A, REC_B, REC_C>>, <<REC_C, REC_A>>, <<REC_B, REC_D, REC_B>>,
     <<REC_D, REC_C, REC_C>>}

\* one call of _filter_and_convert_record_research_ids; its convert calls
\* enter the history
FilterRecords(records) ==
    /\ call.pc = "loaded"
    /\ \E r \in {FilterAndConvertRecordResearchIds(
                      [mapping |-> mapping, unmapped_ids |-> unmapped_ids], records)} :
          /\ mapping' = r.self.mapping
          /\ unmapped_ids' = r.self.unmapped_ids
          /\ call' = [call EXCEPT
                         !.log = @ \cup {<<Some(records[i].item),
                                          ConvertResearchId(r.self, Some(records[i].item)).result>> :
                                            i \in 1..Len(records)},
                         !.unmapped = None,
                         !.records = Some(records),
                         !.filtered = Some(r.filtered_records)]
    /\ UNCHANGED <<mapperVars, runVars>>

\* one call of get_unmapped_ids
UnmappedIdsCall ==
    /\ call.pc = "loaded"
    /\ call' = [call EXCEPT !.unmapped =
                    Some(GetUnmappedIds([mapping |-> mapping, unmapped_ids |-> unmapped_ids]))]
    /\ UNCHANGED <<mapperVars, runVars, codeVars>>

CodeNext ==
    \/ \E rows \in MappingFiles, outcome \in {"ok", "raise"} : LoadMapping(rows, outcome)
    \/ \E research_id \in ConvertIds : Convert(research_id)
    \/ \E records \in RecordLists : FilterRecords(records)
    \/ UnmappedIdsCall

SpecCode == CodeInit /\ [][CodeNext]_vars

\* id followed by k segments ".0"
RECURSIVE WithZeros(_, _)
WithZeros(id, k) == IF k = 0 THEN id ELSE WithZeros(id, k - 1) \o DOT \o ZERO

MaxZeros == 2

HasNonZeroSegment(id) == \E i \in 1..Len(Split(id, ".")) : Split(id, ".")[i] # ZERO

\* the results of the convert calls made so far agree on x and on x followed
\* by zero segments
ZerosInsignificant(x) ==
    \A k \in 0..MaxZeros : \A a, b \in call.log :
        (a[1] = Some(x) /\ b[1] = Some(WithZeros(x, k))) => a[2] = b[2]

\* C12 as stated: for every id x and every k >= 0, convert of x followed by k
\* segments ".0" returns what convert of x returns.
C12_Original ==
    \A a \in call.log : ~IsNone(a[1]) => ZerosInsignificant(Val(a[1]))

\* C12 amended: for every id x that has a segment other than "0" and every
\* k >= 0, convert of x followed by k segments ".0" returns what convert of x
\* returns; and normalize is idempotent.
C12_TrailingZerosInsignificant ==
    \A a \in call.log :
        ~IsNone(a[1]) =>
            /\ HasNonZeroSegment(Val(a[1])) => ZerosInsignificant(Val(a[1]))
            /\ NormalizeResearchId(NormalizeResearchId(Val(a[1])))
                   = NormalizeResearchId(Val(a[1]))

\* C12 witness: the file maps 1.2.0.0; 1.2, 1.2.0 and 1.2.0.0 all convert to 005
C12_Witness ==
    /\ call.rows # <<>> /\ call.rows[1] = MappingRow(RID_12_00, RAW_5)
    /\ {<<Some(RID_12), Some(<<"0", "0", "5">>)>>, <<Some(RID_12_0), Some(<<"0", "0", "5">>)>>,
         <<Some(RID_12_00), Some(<<"0", "0", "5">>)>>} \subseteq call.log

\* row j of the loaded file is read by load_mapping: five columns, an id and a
\* code
Usable(j) ==
    /\ Len(call.rows[j]) >= ItemCol + 1
    /\ StripQuotes(Strip(call.rows[j][ResearchIdCol + 1])) # <<>>
    /\ StripQuotes(Strip(call.rows[j][ItemCol + 1])) # <<>>

\* the raw code, without surrounding whitespace and quotes, of the last row of
\* the loaded file whose id is id up to trailing zero segments
RawCodeFor(id) ==
    LET Same(j) ==
            /\ Usable(j)
            /\ NormalizeResearchId(StripQuotes(Strip(call.rows[j][ResearchIdCol + 1])))
                   = NormalizeResearchId(id)
        last == CHOOSE j \in 1..Len(call.rows) :
                    Same(j) /\ \A n \in (j + 1)..Len(call.rows) : ~Same(n)
    IN  Strip(StripQuotes(Strip(call.rows[last][ItemCol + 1])))

Signed(code) == code # <<>> /\ code[1] \in {"+", "-"}

\* C13: every code convert returns has at least 3 characters; a raw code of
\* 1 to 3 characters comes back with exactly 3 characters, zeros on the left of
\* the raw code (after the sign of a signed code), and a longer raw code comes
\* back as it is in the file, never cut.
C13_CodePadding ==
    \A a \in call.log :
        ~IsNone(a[2]) =>
            LET code == Val(a[2])
                raw == RawCodeFor(Val(a[1]))
            IN  /\ Len(code) >= PadWidth
                /\ Len(raw) <= PadWidth =>
                      /\ Len(code) = PadWidth
                      /\ ~Signed(raw) =>
                            /\ SubSeq(code, PadWidth - Len(raw) + 1, PadWidth) = raw
                            /\ \A i \in 1..(PadWidth - Len(raw)) : code[i] = "0"
                      /\ Signed(raw) =>
                            /\ code[1] = raw[1]
                            /\ SubSeq(code, PadWidth - Len(raw) + 2, PadWidth) = Tail(raw)
                            /\ \A i \in 2..(PadWidth - Len(raw) + 1) : code[i] = "0"
                /\ Len(raw) > PadWidth => code = raw

\* C13 witness: the raw codes " 22 " and 1234 came back as 022 and 1234
C13_Witness ==
    /\ \E a \in call.log :
          /\ a[2] = Some(<<"0", "2", "2">>)
          /\ RawCodeFor(Val(a[1])) = <<"2", "2">>
    /\ \E a \in call.log :
          /\ a[2] = Some(RAW_1234)
          /\ RawCodeFor(Val(a[1])) = RAW_1234

\* the ids given to convert calls that returned nothing
ReturnedNothing == {Val(a[1]) : a \in {b \in call.log : ~IsNone(b[1]) /\ IsNone(b[2])}}

\* C14: after any sequence of convert calls the unmapped set is exactly the set
\* of the id strings, as given, for which convert returned nothing: the empty
\* id is in it when it was given, an absent id never adds anything, an id that
\* converted is not in it; get_unmapped returns the set in ascending order
\* without duplicates.
C14_UnmappedSet ==
    /\ unmapped_ids = ReturnedNothing
    /\ \A a \in call.log : ~IsNone(a[2]) => Val(a[1]) \notin unmapped_ids
    /\ (<<Some(<<>>), None>> \in call.log) => <<>> \in unmapped_ids
    /\ call.log \subseteq {<<None, None>>} => unmapped_ids = {}
    /\ ~IsNone(call.unmapped) =>
          LET ids == Val(call.unmapped)
          IN  /\ {ids[i] : i \in 1..Len(ids)} = unmapped_ids
              /\ \A i \in 1..(Len(ids) - 1) : TextLess(ids[i], ids[i + 1])

\* C14 witness: 1.2.0 converted; the empty id, 0.0.0 and 9 did not;
\* None was given too
C14_Witness ==
    /\ <<None, None>> \in call.log
    /\ \E a \in call.log : a[1] = Some(RID_12_0) /\ ~IsNone(a[2])
    /\ call.unmapped = Some(<< <<>>, RID_000, RID_9 >>)

\* the loaded file has a row for id, up to trailing zero segments
MappedInFile(id) ==
    \E j \in 1..Len(call.rows) :
        /\ Usable(j)
        /\ NormalizeResearchId(StripQuotes(Strip(call.rows[j][ResearchIdCol + 1])))
               = NormalizeResearchId(id)

\* the positions of the input records whose id maps to a code, ascending
KeptPositions(records) ==
    SelectSeq([i \in 1..Len(records) |-> i], LAMBDA i : MappedInFile(records[i].item))

\* C15: the filter's output holds, in input order, exactly the records whose
\* item id maps to a code, each with the code in place of the id and every
\* other field as in the input; the ids of the dropped records are in the
\* unmapped set and in the list get_unmapped_ids returns afterwards.
C15_FilterRecords ==
    ~IsNone(call.filtered) =>
        LET input == Val(call.records)
            output == Val(call.filtered)
            kept == KeptPositions(input)
        IN  /\ Len(output) = Len(kept)
            /\ \A k \in 1..Len(kept) :
                  /\ output[k].item = PadItemCode(RawCodeFor(input[kept[k]].item))
                  /\ [output[k] EXCEPT !.item = input[kept[k]].item] = input[kept[k]]
            /\ \A i \in 1..Len(input) :
                  ~MappedInFile(input[i].item) =>
                      /\ input[i].item \in unmapped_ids
                      /\ ~IsNone(call.unmapped) =>
                            \E n \in 1..Len(Val(call.unmapped)) :
                                Val(call.unmapped)[n] = input[i].item

\* C15 witness: of three records the second is dropped, the first and the
\* third come out in that order with their codes, and the summary names the
\* dropped id
C15_Witness ==
    /\ call.records = Some(<<REC_A, REC_B, REC_C>>)
    /\ call.filtered = Some(<<[REC_A EXCEPT !.item = <<"1", "2", "3", "4">>],
                               [REC_C EXCEPT !.item = <<"0", "2", "2">>]>>)
    /\ call.unmapped = Some(<<RID_9>>)

-----------------------------------------------------------------------------
(* SpecFile: the records of a file that resolves to several geocodes *)

\* the records of the call's rows processed with one geocode alone
AloneRecords(geocode) ==
    ProcessRowsForGeocode(EmptyMapper, call.rows, StdHeaderMap, geocode, call.filename).records

\* the concatenation of the lists blocks[1], ..., blocks[n]
RECURSIVE Concat(_)
Concat(blocks) == IF blocks = <<>> THEN <<>> ELSE Head(blocks) \o Concat(Tail(blocks))

\* the two templates of a row under a geocode, the geocode field set aside
TemplatesWithout(row, geocode) ==
    LET templates == ProcessRow(EmptyMapper, row, StdHeaderMap, geocode, call.filename).templates
    IN  [k \in 1..2 |-> IF IsNone(templates[k]) THEN None
                        ELSE Some([Val(templates[k]) EXCEPT !.geocode = <<>>])]

\* C20: for a file that resolves to geocodes g1..gn the returned records are
\* the records of all rows processed with g1 alone, then those with g2 alone,
\* and so on; every record of the i-th block has geocode gi; and a row yields
\* the same templates, but for the geocode, under every geocode of the file.
C20_MultiGeocodeConcatenation ==
    (call.pc = "done" /\ IsNone(call.error)) =>
        LET geocodes == GetGeocodesForLocation(call.filename)
            blocks == [i \in 1..Len(geocodes) |-> AloneRecords(geocodes[i])]
            Start(i) == Len(Concat(SubSeq(blocks, 1, i - 1)))
        IN  /\ call.records = Concat(blocks)
            /\ \A i \in 1..Len(geocodes) :
                  \A k \in 1..Len(blocks[i]) :
                      /\ Start(i) + k <= Len(call.records)
                      /\ call.records[Start(i) + k].geocode = geocodes[i]
            /\ \A i, j \in 1..Len(geocodes) :
                  \A r \in 1..Len(call.rows) :
                      TemplatesWithout(call.rows[r], geocodes[i])
                          = TemplatesWithout(call.rows[r], geocodes[j])

\* C20 witness: a file of two geocodes whose rows give records under both,
\* more under the one than under the other
C20_Witness ==
    /\ call.pc = "done"
    /\ GetGeocodesForLocation(call.filename) = <<CHICAGO_A, CHICAGO_B>>
    /\ AloneRecords(CHICAGO_A) # <<>>
    /\ AloneRecords(CHICAGO_B) # <<>>
    /\ Len(AloneRecords(CHICAGO_A)) # Len(AloneRecords(CHICAGO_B))
    /\ call.records = AloneRecords(CHICAGO_A) \o AloneRecords(CHICAGO_B)

-----------------------------------------------------------------------------
(* SpecRow: the tax category and the percent of a template *)

\* the tax category a template must carry for the category text cat, as
\* documented: the table's code, "00" without one
DocumentedTaxCat(cat) ==
    IF cat \in DOMAIN tax_cat_lookup THEN tax_cat_lookup[cat] ELSE DEFAULT_TAX_CAT

\* C21 as stated: the tax_cat of every template is the table's code for the
\* segment's category text or "00"; an empty text and a text that is not in
\* the table give "00"; no error is recorded for it.  Violated: a text that is
\* not in the table is carried into the template as it is.
C21_TaxCategoryResolution ==
    (RowDone /\ RowHasId) =>
        /\ ~IsNone(BusinessTemplate) =>
              Val(BusinessTemplate).tax_cat = DocumentedTaxCat(RowCell("business_tax_cat"))
        /\ ~IsNone(PersonalTemplate) =>
              Val(PersonalTemplate).tax_cat = DocumentedTaxCat(RowCell("personal_tax_cat"))
        /\ \A i \in 1..Len(heap[errors_ref]) :
              heap[errors_ref][i].error_type = "UnknownTaxableValueError"

\* the percent text without "%" and surrounding whitespace
Numeral(percent_text) == Strip(Remove(Strip(percent_text), "%"))

\* the text is a number: digits with at most one point among them
IsNumber(percent_text) ==
    LET t == Numeral(percent_text)
        points == {i \in 1..Len(t) : t[i] = "."}
    IN  /\ \E i \in 1..Len(t) : IsDigit(t[i])
        /\ \A i \in 1..Len(t) : IsDigit(t[i]) \/ i \in points
        /\ Cardinality(points) <= 1

\* the number the text stands for, in millionths, rounded half to even: its
\* digits read as a natural number, divided by 10 for every digit after the
\* point and by 100 for a "%"
Millionths(percent_text) ==
    LET t == Numeral(percent_text)
        point == IF Contains(t, ".") THEN CHOOSE i \in 1..Len(t) : t[i] = "." ELSE Len(t) + 1
        after == IF Contains(t, ".") THEN Len(t) - point ELSE 0
        num == DigitsToNat(Remove(t, ".")) * Pow10(FracDigits)
        den == Pow10(after) * (IF Contains(percent_text, "%") THEN 100 ELSE 1)
        q == num \div den
        r == num % den
    IN  IF 2 * r > den \/ (2 * r = den /\ q % 2 = 1) THEN q + 1 ELSE q

\* the template's percent is the segment's percent text as a number, divided
\* by 100 when the text has a "%", written with exactly 6 fractional digits
CarriesPercent(template, percent_text) ==
    LET p == Val(template).percent_taxable
    IN  /\ Len(p) > FracDigits + 1
        /\ p[Len(p) - FracDigits] = "."
        /\ \A i \in 1..Len(p) : i # Len(p) - FracDigits => IsDigit(p[i])
        /\ DigitsToNat(Remove(p, ".")) = Millionths(percent_text)

\* C22: a percent text with "%" is read as its number divided by 100, one
\* without "%" as its number; the template carries the value with exactly 6
\* fractional digits; an empty text and a text that is not a number make the
\* segment invalid (no template for it) and record no error: the errors are
\* those of the usage texts alone.
C22_PercentParsing ==
    (RowDone /\ RowHasId) =>
        /\ ~IsNone(BusinessTemplate) =>
              /\ IsNumber(RowCell("business_percent_tax"))
              /\ CarriesPercent(BusinessTemplate, RowCell("business_percent_tax"))
        /\ ~IsNone(PersonalTemplate) =>
              /\ IsNumber(RowCell("personal_percent_tax"))
              /\ CarriesPercent(PersonalTemplate, RowCell("personal_percent_tax"))
        /\ (KnownUse(RowCell("business_use")) /\ IsNumber(RowCell("business_percent_tax")))
              => BusinessValid
        /\ (KnownUse(RowCell("personal_use")) /\ IsNumber(RowCell("personal_percent_tax")))
              => PersonalValid
        /\ ~IsNumber(RowCell("business_percent_tax")) => ~BusinessValid
        /\ ~IsNumber(RowCell("personal_percent_tax")) => ~PersonalValid
        /\ heap[errors_ref] = ExpectedUseErrors(RowCell("business_use"))
                                 \o ExpectedUseErrors(RowCell("personal_use"))

\* C22 witness: "8.75%" gives 0.087500 and "1.0" gives 1.000000
C22_Witness ==
    /\ RowDone /\ RowHasId
    /\ RowCell("business_percent_tax") = PCT_875
    /\ RowCell("personal_percent_tax") = PCT_ONE
    /\ ~IsNone(BusinessTemplate) /\ ~IsNone(PersonalTemplate)
    /\ Val(BusinessTemplate).percent_taxable = <<"0",".","0","8","7","5","0","0">>
    /\ Val(PersonalTemplate).percent_taxable = <<"1",".","0","0","0","0","0","0">>

\* C22 second witness: "100%" gives 1.000000 beside a segment that a text
\* which is no number makes invalid, and no error is recorded
C22_WitnessInvalid ==
    /\ RowDone /\ RowHasId
    /\ RowCell("business_percent_tax") = PCT_100
    /\ RowCell("personal_percent_tax") = PCT_BAD
    /\ KnownUse(RowCell("personal_use"))
    /\ ~IsNone(BusinessTemplate) /\ IsNone(PersonalTemplate)
    /\ Val(BusinessTemplate).percent_taxable = <<"1",".","0","0","0","0","0","0">>
    /\ heap[errors_ref] = <<>>

\* C22 third witness: a seventh fractional digit is rounded away
C22_WitnessRounded ==
    /\ RowDone /\ RowHasId
    /\ RowCell("personal_percent_tax") = PCT_LONG
    /\ ~IsNone(PersonalTemplate)
    /\ Val(PersonalTemplate).percent_taxable = <<"0",".","0","0","0","0","0","2">>

-----------------------------------------------------------------------------
(* SpecFetch: one call of SheetsClient.get_header_mapping on a client        *)
(* constructed with max_retries = call.self_max_retries; the remote answers  *)
(* each execution of the request with one of Responses.  call.attempt is the *)
(* loop variable, call.executed the answers given so far.                    *)

DefaultRetries == 3
MaxClientRetries == 4
Responses == {"ok", "empty", "429", "404", "500", "error"}

\* SheetsClient(max_retries = n), then get_header_mapping(id, sheet, row):
\* the parameter max_retries takes its default
FetchInit ==
    /\ FreshMapper
    /\ NewProductCodeMapper
    /\ NoRun
    /\ \E n \in 0..MaxClientRetries :
          call = [pc |-> "request", self_max_retries |-> n, max_retries |-> DefaultRetries,
                  attempt |-> 0, executed |-> <<>>, outcome |-> "none"]

\* what follows an answer that is retried while attempts remain
RetryOrRaise(attempt, max_retries, error) ==
    IF attempt < max_retries THEN [pc |-> "sleep", outcome |-> "none"]
    ELSE [pc |-> "raised", outcome |-> error]

\* one pass of the loop body: the request is executed and answered
Execute(response) ==
    /\ call.pc = "request"
    /\ \E after \in {CASE response = "ok" -> [pc |-> "returned", outcome |-> "mapping"]
                       [] response = "empty" -> [pc |-> "returned", outcome |-> "empty"]
                       [] response = "404" -> [pc |-> "raised", outcome |-> "404"]
                       [] OTHER -> RetryOrRaise(call.attempt, call.max_retries, response)} :
          call' = [call EXCEPT !.pc = after.pc, !.outcome = after.outcome,
                               !.executed = Append(@, response)]
    /\ UNCHANGED <<mapperVars, runVars, codeVars>>

\* the wait ends: continue with the next attempt
Backoff ==
    /\ call.pc = "sleep"
    /\ call' = [call EXCEPT !.pc = "request", !.attempt = @ + 1]
    /\ UNCHANGED <<mapperVars, runVars, codeVars>>

FetchNext ==
    \/ \E response \in Responses : Execute(response)
    \/ Backoff

SpecFetch == FetchInit /\ [][FetchNext]_vars

\* every answer so far was HTTP 429
AllRateLimited == \A i \in 1..Len(call.executed) : call.executed[i] = "429"

\* C23 as stated: on a client constructed with max_retries = N, when every
\* request is answered with 429 the request is executed exactly N+1 times and
\* the call then fails with the 429 error; a call that succeeds on attempt
\* k <= N+1 returns after exactly k executions.  Violated for every N other
\* than 3: the loop runs on the method's own max_retries parameter.
C23_RetryCount ==
    /\ AllRateLimited => Len(call.executed) <= call.self_max_retries + 1
    /\ (AllRateLimited /\ Len(call.executed) = call.self_max_retries + 1)
          => (call.pc = "raised" /\ call.outcome = "429")
    /\ (call.pc = "raised" /\ AllRateLimited)
          => (Len(call.executed) = call.self_max_retries + 1 /\ call.outcome = "429")
    /\ (call.pc = "returned" /\ call.outcome = "mapping")
          => /\ call.executed[Len(call.executed)] = "ok"
             /\ \A i \in 1..(Len(call.executed) - 1) : call.executed[i] # "ok"

-----------------------------------------------------------------------------
(* SpecCall: the state lookup loaded from a geocode table *)

\* a state-level geocode: its last 8 characters are zeros
StateLevel(geocode) ==
    /\ Len(geocode) = GeocodeLen
    /\ \A i \in (StatePrefixLen + 1)..GeocodeLen : geocode[i] = "0"

\* C24 as stated: after a geocode table with a state-only row and city rows
\* of one state code is loaded, the state lookup maps the state code to the
\* state-level geocode, whatever the order of the rows.  Violated: a city row
\* that comes after the state's row replaces the state's entry.
C24_StateLookup ==
    CallDone("load_geocodes") =>
        \A i \in 1..Len(call.arg) :
            LET row == call.arg[i]
            IN  (Len(row) >= 2 /\ StateLevel(row[1]) /\ Strip(row[2]) # <<>>)
                    => /\ Strip(row[2]) \in DOMAIN call.result
                       /\ call.result[Strip(row[2])] = row[1]

-----------------------------------------------------------------------------
(* SpecLookup: the parent geocode *)

\* C25: the parent of a geocode is its first 4 characters followed by zeros
\* up to 12 characters: it has 12 characters of which the last 8 are zeros;
\* the parent of a parent is the parent itself, and a state-level geocode is
\* its own parent; for a state-level geocode the fallback looks up the
\* geocode itself and nothing else, while a geocode below a state without
\* entries of its own is looked up first and its parent second.
C25_ParentGeocode ==
    call.pc = "done" =>
        LET g == Upper(Strip(call.geocode))
            parent == ConstructParentGeocode(g)
        IN  /\ Len(parent) = GeocodeLen
            /\ \A i \in (StatePrefixLen + 1)..GeocodeLen : parent[i] = "0"
            /\ \A i \in 1..StatePrefixLen : i <= Len(g) => parent[i] = g[i]
            /\ \A i \in 1..StatePrefixLen : i > Len(g) => parent[i] = "0"
            /\ ConstructParentGeocode(parent) = parent
            /\ StateLevel(g) => parent = g
            /\ (StateLevel(g) /\ Strip(call.tax_cat) # <<>>) => call.lookups = <<g>>
            /\ (g # <<>> /\ Strip(call.tax_cat) # <<>> /\ ~StateLevel(g) /\ Len(g) = GeocodeLen
                   /\ Entries(g, call.tax_cat) = <<>>)
                  => call.lookups = <<g, parent>>

\* C25 witness: a state-level geocode without entries for the category is
\* looked up once and gives no result
C25_Witness ==
    /\ call.pc = "done"
    /\ call.geocode = CO_STATE /\ call.tax_cat = T03
    /\ ConstructParentGeocode(call.geocode) = CO_STATE
    /\ call.lookups = <<CO_STATE>>
    /\ IsNone(call.result)

\* C25 second witness: a city's parent is its state's geocode, looked up
\* second
C25_WitnessCity ==
    /\ call.pc = "done"
    /\ call.geocode = BOULDER /\ call.tax_cat = T02
    /\ call.lookups = <<BOULDER, CO_STATE>>

-----------------------------------------------------------------------------
(* Spec under the event loop's scheduling: the slots of the semaphore *)

\* asyncio runs every task that is ready and every request returns or raises:
\* while a step of the run is possible, one is taken
SpecLive == Init /\ [][Next]_vars /\ WF_vars(Next)

\* the files inside process_sheet: between the semaphore's entry and its exit
InProcessSheet == {i \in 1..Len(tasks) : tasks[i].pc \in {"header", "data"}}

SlotsHeld ==
    /\ Cardinality(InProcessSheet) <= max_concurrency
    /\ semaphore = max_concurrency - Cardinality(InProcessSheet)

EveryFileHasResult ==
    /\ main = "done"
    /\ semaphore = max_concurrency
    /\ Len(Val(processed_results)) = Len(file_list)
    /\ \A i \in 1..Len(file_list) : Val(processed_results)[i].file_id = file_list[i].id

\* C26: with limit max_concurrency, in every state at most max_concurrency
\* files are inside process_sheet, every file that left it (by a result, a
\* failure or an exception) gave its slot back, and under the event loop's
\* scheduling the run ends with all slots free and one result per file.
C26_BoundedConcurrency == []SlotsHeld /\ <>EveryFileHasResult

\* C26 witness: limit 2, both files inside process_sheet at the same time
C26_Witness ==
    /\ max_concurrency = 2
    /\ Len(file_list) = 2
    /\ InProcessSheet = {1, 2}
    /\ semaphore = 0

\* C26 witness: limit 1, the second file waits for the slot of the first
C26_WitnessWaiting ==
    /\ max_concurrency = 1
    /\ Len(file_list) = 2
    /\ InProcessSheet = {1}
    /\ tasks[2].pc = "acquire"
    /\ semaphore = 0

\* C26 witness: the first file left by a failed fetch, its slot is held by the
\* second
C26_WitnessReleased ==
    /\ max_concurrency = 1
    /\ Len(file_list) = 2
    /\ tasks[1].pc = "done" /\ tasks[1].fault = "data"
    /\ InProcessSheet = {2}

-----------------------------------------------------------------------------
(* SpecRow: the Record objects of the expansion *)

TemplateRefs == {Val(call.template_refs[k]) : k \in {k \in 1..2 : ~IsNone(call.template_refs[k])}}

\* the template object is, after the call, what convert_row_to_records returned
TemplatesUnchanged ==
    \A k \in 1..2 :
        IF IsNone(call.templates[k]) THEN IsNone(call.template_refs[k])
        ELSE /\ ~IsNone(call.template_refs[k])
             /\ call.objects[Val(call.template_refs[k])] = Val(call.templates[k])

\* C27: _expand_records_by_tax_types never mutates a template: every Record it
\* returns is a new object (no template, no other returned Record), equal to
\* its template in every field except tax_type, and after the call each
\* template object has the fields it had before.
C27_ExpansionFrame ==
    RowDone =>
        /\ TemplatesUnchanged
        /\ Len(call.expanded) = Len(call.records)
        /\ \A j \in 1..Len(call.expanded) :
              /\ call.expanded[j] \notin TemplateRefs
              /\ \A i \in 1..Len(call.expanded) : i # j => call.expanded[i] # call.expanded[j]
              /\ call.objects[call.expanded[j]] = call.records[j]
              /\ \E k \in 1..2 :
                    /\ ~IsNone(call.templates[k])
                    /\ [call.objects[call.expanded[j]]
                           EXCEPT !.tax_type = Val(call.templates[k]).tax_type]
                           = Val(call.templates[k])

\* C27 witness: two templates, the business one expanded into several Records
\* with tax types other than the template's own
C27_Witness ==
    /\ RowDone /\ TemplateCount = 2
    /\ Len(ResolvedTypes(BusinessTemplate)) >= 2
    /\ Len(call.expanded) >= 2
    /\ \E j \in 1..Len(call.expanded) :
          /\ [call.objects[call.expanded[j]] EXCEPT !.tax_type = TAX_TYPE_DEFAULT]
                 = Val(BusinessTemplate)
          /\ call.objects[call.expanded[j]].tax_type # Val(BusinessTemplate).tax_type
    /\ call.objects[Val(call.template_refs[1])] = Val(BusinessTemplate)

-----------------------------------------------------------------------------
(* SpecFile: the unknown usage texts of a file *)

\* the (row index, segment) pairs of the call: Admin rows, by the comparison
\* of _process_rows_for_geocode, whose usage text is outside both vocabularies
UnrecognisedPairs ==
    {x \in (1..Len(call.rows)) \X {"business_use", "personal_use"} :
        /\ Upper(GetCellValue(call.rows[x[1]], StdHeaderMap["admin"])) = Upper(admin_filter_value)
        /\ ExpectedUseErrors(GetCellValue(call.rows[x[1]], StdHeaderMap[x[2]])) # <<>>}

UnknownUseErrors ==
    SelectSeq(heap[call.processing_errors], LAMBDA e : e.error_type = "UnknownTaxableValueError")

\* C28: the errors process_sheet_rows returns for a file hold exactly one
\* UnknownTaxableValueError per (Admin row, segment) pair with an unrecognised
\* usage text, whatever the number of geocodes of the file.
C28_OneErrorPerPair ==
    (call.pc = "done" /\ IsNone(call.error)) =>
        Len(UnknownUseErrors) = Cardinality(UnrecognisedPairs)

-----------------------------------------------------------------------------
(* Spec: the records and the product items of a file's result *)

\* C29: in the result of every file processed with success, every item id of a
\* Record is the item id of a ProductItem of the same result: a row that
\* yields a Record also yields a catalog entry.
C29_RecordsHaveProductItems ==
    \A i \in 1..Len(tasks) :
        (~IsNone(tasks[i].result) /\ Val(tasks[i].result).success) =>
            \A k \in 1..Len(Val(tasks[i].result).records) :
                \E j \in 1..Len(Val(tasks[i].result).product_items) :
                    Val(tasks[i].result).product_items[j].item
                        = Val(tasks[i].result).records[k].item

-----------------------------------------------------------------------------
(* Spec: the header mapping after the first file's header fetch *)

\* the header fetch for the first file raised, or returned an empty header row
FirstHeaderUnusable ==
    /\ main # "start"
    /\ file_list # <<>>
    /\ IsNone(shared_header_mapping) \/ DOMAIN Val(shared_header_mapping) = {}

\* the file was processed with a header mapping of its own sheet
OwnHeaderMapping(i) ==
    /\ ~IsNone(tasks[i].header_mapping)
    /\ DOMAIN Val(tasks[i].header_mapping) # {}

\* C30: when the header fetch for the first file raised or returned an empty
\* header row, no other file is failed for that reason: a file after the first
\* that is done without a fault of its own (its header fetch, its data fetch,
\* its task) was processed with a header mapping fetched from its own sheet.
C30_OwnHeaderAfterFirstFailure ==
    FirstHeaderUnusable =>
        \A i \in 2..Len(tasks) :
            (tasks[i].pc = "done" /\ tasks[i].fault = "none") =>
                /\ OwnHeaderMapping(i)
                /\ Val(tasks[i].result).error # Some(NoHeadersError)

====
